---- MODULE Spec2Model ----
(***************************************************************************)
(* Orbital Resonance: the trigger detector (ParameterMapper), the event    *)
(* scheduler (AudioEngine), the chord walker (AIConductor) and the pitch   *)
(* functions (ScaleTheory) as state machines.                              *)
(*                                                                         *)
(* Time is Date.now() in milliseconds.  Every Math.random() draw is an     *)
(* input of the action that makes it: a comparison Math.random() < p is a  *)
(* boolean coin, the beacon jitter Math.random() * 1000 a value in         *)
(* 0..999.                                                                 *)
(***************************************************************************)
EXTENDS Integers, Sequences, FiniteSets, TLC

VARIABLES
    now,               \* the wall clock, Date.now()
    previousStates,    \* ParameterMapper.previousStates : Map satId -> state
    trace,             \* detector runs: <<visibility, rule>> of each call so far
    lastCall,          \* detector runs: the last checkTriggerRules call, and when
                       \* the calls before it last reported a rule
    pc,                \* where AudioEngine.update stands: "idle", "process", "stats";
                       \* "loop" while a call of OrbitalResonanceApp.loop has
                       \* not reached it yet
    frame,             \* the satellites array of the running update: satId -> position
    idx,               \* the satellite the for loop of update is at
    lastTriggerTime,   \* AudioEngine.lastTriggerTime : Map satId -> time
    globalLastTrigger, \* AudioEngine.globalLastTrigger
    eventCounter,      \* AudioEngine.eventCounter
    lastStatsUpdate,   \* AudioEngine.lastStatsUpdate
    eventsPerSecond,   \* AudioEngine.stats.eventsPerSecond
    currentScale,      \* ScaleTheory.currentScale
    currentKey,        \* ScaleTheory.currentKey
    admitLog,          \* the times of the Instruments.play calls of the last second
    detected,          \* the rules mapCollective detected for the satellites from idx on
    lastProc,          \* the last processSatellite call of the running update:
                       \* what mapCollective had detected for its satellite, how
                       \* often the detector has run on it in this update, and
                       \* what the call did
    chordIndex,        \* AIConductor.chordIndex; currentChordNotes is
                       \* progression[chordIndex]
    chordTimer,        \* when the interval timer of startConducting is next due
    conductorResult,   \* the conductorResult of the running update
    arg,               \* function runs: the function called and its arguments
    ret,               \* function runs: what the call returned
    isRunning,         \* OrbitalResonanceApp.isRunning
    isPlaying,         \* AudioEngine.isPlaying
    isInitialized,     \* AudioEngine.isInitialized
    simulatedTime,     \* SatelliteEngine.simulatedTime
    startup,           \* where OrbitalResonanceApp.start stands: "ready" before
                       \* the call, "starting" in its await, "started" after
    callbacks,         \* the requestAnimationFrame callbacks not yet run
    paused,            \* the user has asked for pause and not yet for resume
    atPause,           \* the clock and the engine state when pause was asked for
    starts,            \* start runs: where the start() call of each request stands
    components,        \* how often AudioEngine.initialize has constructed the audio
                       \* components; the last set is the one the engine refers to
    conducting         \* the AIConductor instances whose chord timer runs

detVars == <<now, previousStates, trace, lastCall>>

engineVars == <<pc, frame, idx, lastTriggerTime, globalLastTrigger, eventCounter,
                lastStatsUpdate, eventsPerSecond, currentScale, currentKey,
                admitLog, detected, lastProc, chordIndex, chordTimer,
                conductorResult>>

callVars == <<arg, ret>>

appVars == <<isRunning, isPlaying, isInitialized, simulatedTime, startup,
             callbacks, paused, atPause, starts, components, conducting>>

vars == <<now, previousStates, trace, lastCall, pc, frame, idx, lastTriggerTime,
          globalLastTrigger, eventCounter, lastStatsUpdate, eventsPerSecond,
          currentScale, currentKey, admitLog, detected, lastProc, chordIndex,
          chordTimer, conductorResult, arg, ret, isRunning, isPlaying,
          isInitialized, simulatedTime, startup, callbacks, paused, atPause, starts, components, conducting>>

-----------------------------------------------------------------------------
(* Bounds of the model *)

MaxCalls == 4         \* checkTriggerRules calls in a detector run
NumSats == 2          \* active satellites in an engine run
BurstSize == 16       \* satellites in a burst run
MaxNotes == 3         \* notes in a list handed to calculateDissonance or identifyChord
MaxChords == 4        \* chord changes in a conductor run
MaxTicks == 3         \* loop passes that advance the simulated clock in a pause run
MaxLoops == 2         \* animation-frame callbacks pending when resume is asked for
MaxActive == 3        \* active satellites handed to getActiveSatellitesWithPositions
MaxSlow == 2          \* updates of a slow run
MaxEntries == 13      \* addSoundLogEntry calls made before the one of a function run
MaxStarts == 2        \* 'orbital-start' events of a start run
DemoCount == 2        \* satellites a demo generator makes (the source asks for 3000, 10, 10)

-----------------------------------------------------------------------------
(* Program constants *)

Epoch == 100000           \* Date.now() when the engine is constructed
GridSpacing == 10         \* triggerRules.gridCrossing.spacing
BeaconInterval == 1000    \* triggerRules.periodic.interval
BeaconJitter == 1000      \* Math.random() * 1000
ScreenLon == 170          \* |longitude| < 170
ScreenLat == 85           \* |latitude| < 85
MaxVoices == 15           \* const maxVoices = 15
GlobalThrottle == 100     \* now - this.globalLastTrigger < 100
StatsWindow == 1000       \* elapsed >= 1000
AmbientFloor == 15000     \* minInterval = 15000 + ...
AmbientSpan == 30000      \* ... (1 - speedFactor) * 30000
DefaultAltitude == 500    \* satellite.position.altitude || 500
ChordPeriod == 8000       \* setInterval(..., 8000)
maxHistory == 100         \* this.history.maxHistory
LogLimit == 10            \* this.soundLogEntries.length > 10

GRID_LON == "GRID LINE (LON)"
GRID_LAT == "GRID LINE (LAT)"
SCREEN_ENTRY == "ENTERED SCREEN"
ZONE_CHANGE == "ZONE CHANGE"
BEACON == "BEACON SIGNAL"
NoRule == "null"

TransitionRules == {GRID_LON, GRID_LAT, SCREEN_ENTRY, ZONE_CHANGE}

-----------------------------------------------------------------------------
(* Inputs *)

\* The samples fed to a detector run: longitudes either side of the grid line
\* at 0 and off screen (175), latitudes either side of the grid line at 80 and
\* off screen (86), altitudes in LEO and MEO.
Samples ==
    [longitude : {-5, 175}, latitude : {84}, altitude : {1500}]
      \cup [longitude : {5}, latitude : {84}, altitude : {1500, 2500}]
      \cup [longitude : {5}, latitude : {75, 86}, altitude : {1500}]

\* Math.random() * 1000 of the beacon rule: the two ends of its range.
Jitters == {0, BeaconJitter - 1}

\* How far the clock moves between two detector calls.
DetDelays == {0, 1500}

\* The one entity of a detector run.
DetSat == 1

-----------------------------------------------------------------------------
(* ParameterMapper *)

Abs(x) == IF x < 0 THEN -x ELSE x

\* Math.floor(coordinate / spacing)
GridOf(x) == x \div GridSpacing

IsOnScreen(pos) == Abs(pos.longitude) < ScreenLon /\ Abs(pos.latitude) < ScreenLat

\* Faulty variant: the upper end of a band belongs to it.
getZoneInclusive(altitude) ==
    IF altitude >= 0 /\ altitude <= 2000 THEN "LEO"
    ELSE IF altitude >= 2000 /\ altitude <= 20000 THEN "MEO"
    ELSE IF altitude >= 20000 /\ altitude <= 50000 THEN "GEO"
    ELSE "DEEP"

getZone(altitude) ==
    IF altitude >= 0 /\ altitude < 2000 THEN "LEO"
    ELSE IF altitude >= 2000 /\ altitude < 20000 THEN "MEO"
    ELSE IF altitude >= 20000 /\ altitude < 50000 THEN "GEO"
    ELSE "DEEP"

\* Faulty variant: an entity without a record is taken to come from the
\* origin at altitude 0.
PrevStateOfOrigin(states, satId, pos) ==
    IF satId \in DOMAIN states THEN states[satId]
    ELSE [longitude |-> 0, latitude |-> 0, altitude |-> 0, wasOnScreen |-> FALSE,
          lastBeacon |-> 0]

\* this.previousStates.get(satId) || { ...pos, wasOnScreen: false, lastBeacon: 0 }
PrevStateOf(states, satId, pos) ==
    IF satId \in DOMAIN states THEN states[satId]
    ELSE [longitude |-> pos.longitude, latitude |-> pos.latitude,
          altitude |-> pos.altitude, wasOnScreen |-> FALSE, lastBeacon |-> 0]

\* Map.set
MapSet(m, k, v) == [x \in DOMAIN m \cup {k} |-> IF x = k THEN v ELSE m[x]]

\* Faulty variant: latitude checked before longitude.
GridRuleLatFirst(prev, pos) ==
    IF GridOf(prev.latitude) # GridOf(pos.latitude)
    THEN [rule |-> GRID_LAT, detail |-> <<GridOf(pos.latitude) * GridSpacing, "N">>]
    ELSE IF GridOf(prev.longitude) # GridOf(pos.longitude)
    THEN [rule |-> GRID_LON, detail |-> <<GridOf(pos.longitude) * GridSpacing, "E">>]
    ELSE [rule |-> NoRule, detail |-> <<>>]

\* Faulty variant: a crossing is seen only towards the higher bin.
GridRuleUpOnly(prev, pos) ==
    IF GridOf(prev.longitude) < GridOf(pos.longitude)
    THEN [rule |-> GRID_LON, detail |-> <<GridOf(pos.longitude) * GridSpacing, "E">>]
    ELSE IF GridOf(prev.latitude) < GridOf(pos.latitude)
    THEN [rule |-> GRID_LAT, detail |-> <<GridOf(pos.latitude) * GridSpacing, "N">>]
    ELSE [rule |-> NoRule, detail |-> <<>>]

\* Rule 1, longitude before latitude.
GridRule(prev, pos) ==
    IF GridOf(prev.longitude) # GridOf(pos.longitude)
    THEN [rule |-> GRID_LON, detail |-> <<GridOf(pos.longitude) * GridSpacing, "E">>]
    ELSE IF GridOf(prev.latitude) # GridOf(pos.latitude)
    THEN [rule |-> GRID_LAT, detail |-> <<GridOf(pos.latitude) * GridSpacing, "N">>]
    ELSE [rule |-> NoRule, detail |-> <<>>]

\* Rule 2 runs only when rule 1 did not fire; it fires on the rising edge and
\* stores the flag.
ScreenRule(prev, pos, triggered) ==
    IF triggered
    THEN [fired |-> FALSE, wasOnScreen |-> prev.wasOnScreen]
    ELSE [fired |-> ~prev.wasOnScreen /\ IsOnScreen(pos),
          wasOnScreen |-> IsOnScreen(pos)]

\* Rule 3 runs only when no earlier rule fired.
ZoneRule(prev, pos, triggered) ==
    ~triggered /\ getZone(prev.altitude) # getZone(pos.altitude)

\* Faulty variant: a rule that fired leaves the beacon timer as it was.
BeaconRuleNoReset(prev, t, triggered, jitter, coin) ==
    IF ~triggered
    THEN IF t - prev.lastBeacon > BeaconInterval + jitter /\ coin
         THEN [fired |-> TRUE, lastBeacon |-> t]
         ELSE [fired |-> FALSE,
               lastBeacon |-> IF prev.lastBeacon = 0 THEN t ELSE prev.lastBeacon]
    ELSE [fired |-> FALSE, lastBeacon |-> prev.lastBeacon]

\* Rule 4 and the beacon timer: [fired, lastBeacon].
BeaconRule(prev, t, triggered, jitter, coin) ==
    IF ~triggered
    THEN IF t - prev.lastBeacon > BeaconInterval + jitter /\ coin
         THEN [fired |-> TRUE, lastBeacon |-> t]
         ELSE [fired |-> FALSE,
               lastBeacon |-> IF prev.lastBeacon = 0 THEN t ELSE prev.lastBeacon]
    ELSE [fired |-> FALSE, lastBeacon |-> t]

\* Faulty variant: the latitude is stored in the longitude field too.
StoredStateLatTwice(pos, wasOnScreen, lastBeacon) ==
    [longitude |-> pos.latitude, latitude |-> pos.latitude,
     altitude |-> pos.altitude, wasOnScreen |-> wasOnScreen,
     lastBeacon |-> lastBeacon]

\* The record written by this.previousStates.set(satId, {...}).
StoredState(pos, wasOnScreen, lastBeacon) ==
    [longitude |-> pos.longitude, latitude |-> pos.latitude,
     altitude |-> pos.altitude, wasOnScreen |-> wasOnScreen,
     lastBeacon |-> lastBeacon]

\* Faulty variant: a satellite without a position gets an empty record.
MissingResultCreates(states, satId) ==
    [states |-> MapSet(states, satId,
                       [longitude |-> 0, latitude |-> 0, altitude |-> 0,
                        wasOnScreen |-> FALSE, lastBeacon |-> 0]),
     shouldTrigger |-> FALSE, rule |-> NoRule, detail |-> <<>>]

\* if (!pos) return { shouldTrigger: false, rule: null };
MissingResult(states, satId) ==
    [states |-> states, shouldTrigger |-> FALSE, rule |-> NoRule, detail |-> <<>>]

\* checkTriggerRules(satellite) at clock t.  position is <<>> (no position) or
\* <<pos>>.  Gives the new previousStates and the returned object.
checkTriggerRules(states, satId, position, t, jitter, coin) ==
    IF position = <<>>
    THEN MissingResult(states, satId)
    ELSE
    LET pos == position[1]
        prev == PrevStateOf(states, satId, pos)
        grid == GridRule(prev, pos)
        t1 == grid.rule # NoRule
        screen == ScreenRule(prev, pos, t1)
        t2 == t1 \/ screen.fired
        zone == ZoneRule(prev, pos, t2)
        t3 == t2 \/ zone
        beacon == BeaconRule(prev, t, t3, jitter, coin)
        triggered == t3 \/ beacon.fired
        ruleName == IF t1 THEN grid.rule
                    ELSE IF screen.fired THEN SCREEN_ENTRY
                    ELSE IF zone THEN ZONE_CHANGE
                    ELSE IF beacon.fired THEN BEACON
                    ELSE NoRule
        ruleDetail == IF t1 THEN grid.detail
                      ELSE IF screen.fired THEN <<"Visual Contact">>
                      ELSE IF zone THEN <<getZone(prev.altitude), getZone(pos.altitude)>>
                      ELSE IF beacon.fired THEN <<"Keep-alive Signal">>
                      ELSE <<>>
    IN  [states |-> MapSet(states, satId,
                           StoredState(pos, screen.wasOnScreen, beacon.lastBeacon)),
         shouldTrigger |-> triggered, rule |-> ruleName, detail |-> ruleDetail]

-----------------------------------------------------------------------------
(* AIConductor and ScaleTheory, as far as AudioEngine.update uses them *)

ScaleNames == {"pentatonic", "minorPentatonic", "major", "minor", "wholeTone",
               "harmonicMinor", "lydian", "dorian", "cosmic", "deep_space",
               "prototype"}

\* The chord progression of AIConductor.startConducting.
progression ==
    << <<"D", "F#", "A", "C#">>, <<"E", "G#", "B", "D">>,
       <<"B", "D", "F#", "A">>, <<"F#", "A", "C#", "E">> >>

\* AIConductor.getMoodScale
getMoodScale(mood) ==
    CASE mood = "peaceful" -> "lydian"
      [] mood = "building" -> "major"
      [] mood = "climax" -> "minor"
      [] mood = "calm" -> "dorian"
      [] OTHER -> "major"

\* Names this.scales does not define but inherits from Object.prototype:
\* this.scales[name] is a function or an object for them, which is truthy.
InheritedNames == {"constructor", "toString", "__proto__"}

\* if (this.scales[name])
ScaleExists(name) == name \in ScaleNames \cup InheritedNames

\* ScaleTheory.setMode: the scale after it.
setMode(scale, modeName) == IF ScaleExists(modeName) THEN modeName ELSE scale

\* AIConductor.analyze returns this.state.mood, which nothing on the update
\* path assigns after the constructor.
AnalyzeMood == "peaceful"

\* AIConductor.analyze with the walker at chord index i (from 0).
analyze(i) == [mood |-> AnalyzeMood, allowedNotes |-> progression[i + 1]]

\* The AUTO-CONDUCTOR block of update: the scale after it.
AutoConductorScale(scale) ==
    IF getMoodScale(AnalyzeMood) # scale
    THEN setMode(scale, getMoodScale(AnalyzeMood))
    ELSE scale

-----------------------------------------------------------------------------
(* Numbers.  A JavaScript number that is not an integer is an IEEE 754       *)
(* double.  The doubles met here are whole multiples of 2^-60 below 2048;   *)
(* one is written <<a, b, c>> for (a * 2^40 + b * 2^20 + c) * 2^-60, every   *)
(* part below 2^20 (a is larger from 1.0 on).  Sums, differences, products   *)
(* and quotients are rounded to 53 significant bits, to nearest and ties to  *)
(* even, as the language does.                                               *)

Limb == 1048576

Zero == <<0, 0, 0>>

One == <<Limb, 0, 0>>

RECURSIVE Log2(_)
Log2(n) == IF n < 2 THEN 0 ELSE 1 + Log2(n \div 2)

RECURSIVE Pow2(_)
Pow2(k) == IF k = 0 THEN 1 ELSE 2 * Pow2(k - 1)

\* Brings the two lower parts back into 0 .. 2^20 - 1.
Carry(x) ==
    LET b1 == x[2] + (x[3] \div Limb)
    IN  <<x[1] + (b1 \div Limb), b1 % Limb, x[3] % Limb>>

\* The weight of the last of the 53 bits of x, in units of 2^-60.
Ulp(x) == IF x[1] < 4096 THEN 1 ELSE Pow2(Log2(x[1]) - 12)

\* The double nearest to x + rem / den units (0 <= rem < den).
RoundNearest(x, rem, den) ==
    LET u == Ulp(x)
        r == x[3] % u
        twice == 2 * (r * den + rem)
        odd == (x[3] \div u) % 2 = 1
    IN  IF twice > u * den \/ (twice = u * den /\ odd)
        THEN Carry(<<x[1], x[2], x[3] - r + u>>)
        ELSE <<x[1], x[2], x[3] - r>>

\* x + y
FAdd(x, y) == RoundNearest(Carry(<<x[1] + y[1], x[2] + y[2], x[3] + y[3]>>), 0, 1)

\* x - y, for x >= y
FSub(x, y) == RoundNearest(Carry(<<x[1] - y[1], x[2] - y[2], x[3] - y[3]>>), 0, 1)

\* x / n, for an integer n >= 1
FDiv(x, n) ==
    LET t2 == (x[1] % n) * Limb + x[2]
        t3 == (t2 % n) * Limb + x[3]
    IN  RoundNearest(<<x[1] \div n, t2 \div n, t3 \div n>>, t3 % n, n)

\* The whole number n, below 2048.
Number(n) == <<n * Limb, 0, 0>>

\* x < y
FLess(x, y) ==
    \/ x[1] < y[1]
    \/ x[1] = y[1] /\ (x[2] < y[2] \/ (x[2] = y[2] /\ x[3] < y[3]))

\* The digits of x to the base 1024, lowest first; the seventh is what is
\* left of x[1].
Digits(x) ==
    <<x[3] % 1024, x[3] \div 1024, x[2] % 1024, x[2] \div 1024, x[1] % 1024,
      (x[1] \div 1024) % 1024, x[1] \div Limb>>

\* The sum of dx[i] * dy[k - i] from i on: column k of the long multiplication.
RECURSIVE Column(_, _, _, _)
Column(dx, dy, k, i) ==
    IF i > 7 THEN 0
    ELSE (IF k - i \in 1 .. 7 THEN dx[i] * dy[k - i] ELSE 0) + Column(dx, dy, k, i + 1)

\* The digits of the product from column k on, lowest first, the last carry
\* at the end.
RECURSIVE ProductDigits(_, _, _, _)
ProductDigits(dx, dy, k, carry) ==
    IF k > 14 THEN <<carry>>
    ELSE LET col == Column(dx, dy, k, 1) + carry
         IN  <<col % 1024>> \o ProductDigits(dx, dy, k + 1, col \div 1024)

\* x * y.  The six lowest digits of the exact product lie below the unit
\* 2^-60; they count as nothing, less than half, half or more than half of it.
FMul(x, y) ==
    LET p == ProductDigits(Digits(x), Digits(y), 2, 0)
        lowZero == \A i \in 1 .. 5 : p[i] = 0
        q == IF lowZero /\ p[6] = 0 THEN 0
             ELSE IF p[6] > 512 \/ (p[6] = 512 /\ ~lowZero) THEN 3
             ELSE IF p[6] = 512 THEN 2 ELSE 1
    IN  RoundNearest(<<p[11] + 1024 * p[12] + Limb * (p[13] + 1024 * p[14]),
                       p[9] + 1024 * p[10], p[7] + 1024 * p[8]>>, q, 4)

-----------------------------------------------------------------------------
(* ScaleTheory.  A note name such as "C#4" is the record of its two parts,  *)
(* [name |-> "C#", octave |-> 4]; name is "undefined" when the name was     *)
(* read from noteNames at an index that is not a number.                    *)

\* this.scales
scales ==
    [n \in ScaleNames |->
        CASE n = "pentatonic" -> <<0, 2, 4, 7, 9>>
          [] n = "minorPentatonic" -> <<0, 3, 5, 7, 10>>
          [] n = "major" -> <<0, 2, 4, 5, 7, 9, 11>>
          [] n = "minor" -> <<0, 2, 3, 5, 7, 8, 10>>
          [] n = "wholeTone" -> <<0, 2, 4, 6, 8, 10>>
          [] n = "harmonicMinor" -> <<0, 2, 3, 5, 7, 8, 11>>
          [] n = "lydian" -> <<0, 2, 4, 6, 7, 9, 11>>
          [] n = "dorian" -> <<0, 2, 3, 5, 7, 9, 10>>
          [] n = "cosmic" -> <<0, 2, 4, 6, 7, 9, 11>>
          [] n = "deep_space" -> <<0, 2, 3, 7, 8, 11>>
          [] n = "prototype" -> <<0, 2, 4, 6, 8, 10>>]

\* this.noteNames; index i of the array is element i + 1 of the sequence.
noteNames == <<"C", "C#", "D", "D#", "E", "F", "F#", "G", "G#", "A", "A#", "B">>

Undefined == "undefined"

\* noteNames.indexOf(name); -1 when the name is not in the array.
IndexOfName(name) ==
    IF \E i \in 1 .. 12 : noteNames[i] = name
    THEN (CHOOSE i \in 1 .. 12 : noteNames[i] = name) - 1
    ELSE -1

\* The % of JavaScript: the remainder has the sign of the dividend.
JsMod(a, b) == IF a >= 0 THEN a % b ELSE -((-a) % b)

\* ScaleTheory.setKey: the key after it.
setKey(key, keyNote) == IF IndexOfName(keyNote) # -1 THEN IndexOfName(keyNote) ELSE key

\* ScaleTheory.setScale(scaleName, keyNote = 'C'): the scale and key after it.
\* An argument left out is undefined and takes the default.
setScale(scale, key, scaleName, keyNote) ==
    [scale |-> IF ScaleExists(scaleName) THEN scaleName ELSE scale,
     key |-> setKey(key, IF keyNote = Undefined THEN "C" ELSE keyNote)]

\* setHarmonyMode(mode): this.currentScale afterwards,
\* modeToScale[mode] || 'pentatonic'.
setHarmonyMode(mode) ==
    CASE mode = "consonant" -> "pentatonic"
      [] mode = "pentatonic" -> "minorPentatonic"
      [] mode = "chaotic" -> "chromatic"
      [] mode = "ambient" -> "wholeTone"
      [] OTHER -> "pentatonic"

\* The octave phaseToNote gives a category.
CategoryOctave(category) ==
    CASE category = "STATION" -> 3
      [] category = "COMMUNICATION" -> 5
      [] category = "SCIENCE" -> 6
      [] category = "DEBRIS" -> 7
      [] OTHER -> 4

\* Faulty variant: the key is left out of the semitone.
phaseToNoteNoKey(scaleName, key, phase, category) ==
    LET scale == scales[scaleName]
        noteIndex == JsMod((phase * Len(scale)) \div 360, Len(scale))
    IN  [name |-> IF noteIndex < 0 THEN Undefined
                  ELSE noteNames[(scale[noteIndex + 1] % 12) + 1],
         octave |-> CategoryOctave(category)]

\* phaseToNote(phase, category) under the given scale and key.
\* Math.floor((phase / 360) * scaleLength) is the floor of the exact quotient
\* for whole-degree phases.  A negative noteIndex reads scale[noteIndex], which
\* is undefined; the semitone is then NaN and the name noteNames[NaN].
phaseToNote(scaleName, key, phase, category) ==
    LET scale == scales[scaleName]
        noteIndex == JsMod((phase * Len(scale)) \div 360, Len(scale))
    IN  [name |-> IF noteIndex < 0 THEN Undefined
                  ELSE noteNames[((key + scale[noteIndex + 1]) % 12) + 1],
         octave |-> CategoryOctave(category)]

\* this.consonance, by interval 0 .. 11 (element i + 1 is interval i): the
\* doubles 1.0, 0.1, 0.4, 0.8, 0.8, 0.9, 0.2, 1.0, 0.7, 0.7, 0.5, 0.3.
consonance ==
    << <<1048576, 0, 0>>, <<104857, 629145, 629152>>, <<419430, 419430, 419456>>,
       <<838860, 838860, 838912>>, <<838860, 838860, 838912>>,
       <<943718, 419430, 419456>>, <<209715, 209715, 209728>>, <<1048576, 0, 0>>,
       <<734003, 209715, 209664>>, <<734003, 209715, 209664>>, <<524288, 0, 0>>,
       <<314572, 838860, 838848>> >>

\* parseInt of the one digit that (\d) matches: the first digit of the octave.
RECURSIVE FirstDigit(_)
FirstDigit(n) == IF n < 10 THEN n ELSE FirstDigit(n \div 10)

\* noteName.match(/([A-G]#?)(\d)/): a name of noteNames directly followed by a
\* digit.  "undefined4" and "D-1" do not match.
Matches(note) == IndexOfName(note.name) >= 0 /\ note.octave >= 0

\* noteToMidi(noteName)
noteToMidi(note) ==
    IF ~Matches(note) THEN 60
    ELSE (FirstDigit(note.octave) + 1) * 12 + IndexOfName(note.name)

\* The two nested loops of calculateDissonance from pair (i, j) on.
RECURSIVE SumPairs(_, _, _, _)
SumPairs(notes, i, j, total) ==
    IF i > Len(notes) THEN total
    ELSE IF j > Len(notes) THEN SumPairs(notes, i + 1, i + 2, total)
    ELSE LET interval == Abs(noteToMidi(notes[i]) - noteToMidi(notes[j])) % 12
         IN  SumPairs(notes, i, j + 1,
                      FAdd(total, FSub(One, consonance[interval + 1])))

\* calculateDissonance(notes)
calculateDissonance(notes) ==
    IF Len(notes) < 2 THEN Zero
    ELSE FDiv(SumPairs(notes, 1, 2, Zero), (Len(notes) * (Len(notes) - 1)) \div 2)

\* chordPatterns[intervalStr] || 'Cluster'
chordPatterns(intervals) ==
    CASE intervals = <<4, 7>> -> "Major"
      [] intervals = <<3, 7>> -> "Minor"
      [] intervals = <<4, 7, 11>> -> "Major 7"
      [] intervals = <<3, 7, 10>> -> "Minor 7"
      [] intervals = <<4, 7, 10>> -> "Dominant 7"
      [] intervals = <<3, 6>> -> "Diminished"
      [] intervals = <<4, 8>> -> "Augmented"
      [] intervals = <<5, 7>> -> "sus4"
      [] intervals = <<2, 7>> -> "sus2"
      [] OTHER -> "Cluster"

\* array.sort((a, b) => a - b)
SortNumbers(seq) == SortSeq(seq, LAMBDA a, b : a < b)

\* Faulty variant: the MIDI numbers are not sorted, the first note is the root.
identifyChordUnsorted(notes) ==
    IF Len(notes) < 3 THEN <<"Unknown">>
    ELSE LET midis == [i \in 1 .. Len(notes) |-> noteToMidi(notes[i])]
             rootMidi == midis[1]
             intervals == SortNumbers([i \in 1 .. Len(midis) - 1 |->
                                          (midis[i + 1] - rootMidi) % 12])
         IN  <<noteNames[(rootMidi % 12) + 1], chordPatterns(intervals)>>

\* identifyChord(notes): <<"Unknown">>, or <<root, quality>> for the string
\* `${root} ${quality}`.
identifyChord(notes) ==
    IF Len(notes) < 3 THEN <<"Unknown">>
    ELSE LET midis == SortNumbers([i \in 1 .. Len(notes) |-> noteToMidi(notes[i])])
             rootMidi == midis[1]
             intervals == SortNumbers([i \in 1 .. Len(midis) - 1 |->
                                          (midis[i + 1] - rootMidi) % 12])
         IN  <<noteNames[(rootMidi % 12) + 1], chordPatterns(intervals)>>

\* The two nested loops of constrainToChord from candidate n on: candidate n
\* is allowed name (n - 1) div 3 placed at octave - 1, octave or octave + 1.
\* Gives closestMidi.
RECURSIVE ClosestFrom(_, _, _, _, _, _)
ClosestFrom(allowedNotes, octave, inputMidi, n, closestMidi, minDist) ==
    IF n > 3 * Len(allowedNotes) THEN closestMidi
    ELSE LET targetMidi ==
                 noteToMidi([name |-> allowedNotes[((n - 1) \div 3) + 1],
                             octave |-> octave - 1 + ((n - 1) % 3)])
             dist == Abs(targetMidi - inputMidi)
         IN  IF dist < minDist
             THEN ClosestFrom(allowedNotes, octave, inputMidi, n + 1, targetMidi, dist)
             ELSE ClosestFrom(allowedNotes, octave, inputMidi, n + 1, closestMidi,
                              minDist)

\* constrainToChord(note, allowedNotes); allowedNotes is a list of note names.
constrainToChord(note, allowedNotes) ==
    IF allowedNotes = <<>> \/ ~Matches(note) THEN note
    ELSE LET closestMidi ==
                 ClosestFrom(allowedNotes, FirstDigit(note.octave),
                             noteToMidi(note), 1, -1, 999)
         IN  [name |-> noteNames[(closestMidi % 12) + 1],
              octave |-> (closestMidi \div 12) - 1]

-----------------------------------------------------------------------------
(* AIConductor: the history buffers and the mood rules.  A history is the  *)
(* record of the three arrays of this.history.                             *)

\* this.config, the fields that are whole numbers.
config == [densityThreshold |-> 30, moodChangeDuration |-> 5000]

\* The literals of the trend and mood rules: 1.2, 0.8, 0.7, 0.3 and 0.4.
TrendUp == <<1258291, 209715, 209664>>

TrendDown == <<838860, 838860, 838912>>

ClimaxIntensity == <<734003, 209715, 209664>>

PeacefulDissonance == <<314572, 838860, 838848>>

PeacefulIntensity == <<419430, 419430, 419456>>

\* this.history after the constructor
EmptyHistory == [dissonance |-> <<>>, density |-> <<>>, notes |-> <<>>]

\* this.history.dissonance.length > this.config.maxHistory: this.config has
\* no field maxHistory, and a comparison with undefined is false.
TrimDue(length) == "maxHistory" \in DOMAIN config /\ length > config.maxHistory

\* updateHistory(dissonance, density, notes): the history after it.
updateHistory(history, dissonance, density, notes) ==
    LET pushed == [dissonance |-> Append(history.dissonance, dissonance),
                   density |-> Append(history.density, density),
                   notes |-> Append(history.notes, notes)]
    IN  IF TrimDue(Len(pushed.dissonance))
        THEN [dissonance |-> Tail(pushed.dissonance),
              density |-> Tail(pushed.density), notes |-> Tail(pushed.notes)]
        ELSE pushed

\* array.reduce((a, b) => a + b) over whole numbers
RECURSIVE Sum(_)
Sum(seq) == IF seq = <<>> THEN 0 ELSE Head(seq) + Sum(Tail(seq))

\* array.slice(-10)
SliceRecent(density) ==
    SubSeq(density, IF Len(density) > 10 THEN Len(density) - 9 ELSE 1, Len(density))

\* array.slice(-20, -10)
SliceOlder(density) ==
    SubSeq(density, IF Len(density) > 20 THEN Len(density) - 19 ELSE 1,
           Len(density) - 10)

\* reduce(...) / length
Average(seq) == FDiv(Number(Sum(seq)), Len(seq))

\* isBuilding(), on this.history.density
isBuilding(density) ==
    IF Len(density) < 10 THEN FALSE
    ELSE IF Len(SliceOlder(density)) = 0 THEN FALSE
    ELSE FLess(FMul(Average(SliceOlder(density)), TrendUp),
               Average(SliceRecent(density)))

\* isCalming(), on this.history.density
isCalming(density) ==
    IF Len(density) < 10 THEN FALSE
    ELSE IF Len(SliceOlder(density)) = 0 THEN FALSE
    ELSE FLess(Average(SliceRecent(density)),
               FMul(Average(SliceOlder(density)), TrendDown))

\* determineMood(density, dissonance, intensity), with this.history.density
\* and this.state.mood.
determineMood(density, dissonance, intensity, history, mood) ==
    IF density > config.densityThreshold /\ FLess(ClimaxIntensity, intensity)
    THEN "climax"
    ELSE IF isBuilding(history) THEN "building"
    ELSE IF isCalming(history) THEN "calm"
    ELSE IF FLess(dissonance, PeacefulDissonance) /\ FLess(intensity, PeacefulIntensity)
    THEN "peaceful"
    ELSE mood

-----------------------------------------------------------------------------
(* SatelliteEngine: the positions of the active satellites *)

\* calculatePosition returned null.
Null == [kind |-> "null"]

\* An exception left the call.
Thrown == [kind |-> "thrown"]

\* The geodetic position computed from a propagated satellite.
PositionOf(sat) ==
    [kind |-> "position",
     position |-> [longitude |-> 10 * sat.noradId, latitude |-> 0,
                   altitude |-> 500]]

\* The body of the try block of calculatePosition: satellite.propagate may
\* throw; a result without position returns null.
TryPropagate(sat) ==
    IF sat.propagation = "throws" THEN Thrown
    ELSE IF sat.propagation = "false" THEN Null
    ELSE PositionOf(sat)

\* Faulty variant: calculatePosition without its catch.
calculatePositionUncaught(sat) == IF ~sat.satrec THEN Null ELSE TryPropagate(sat)

\* calculatePosition(sat): null without a satrec; catch (error) { return null; }
calculatePosition(sat) ==
    IF ~sat.satrec THEN Null
    ELSE LET r == TryPropagate(sat) IN IF r = Thrown THEN Null ELSE r

\* The for loop of getActiveSatellitesWithPositions from satellite i on:
\* result.push({...sat, position}) for every position that is not null.  An
\* exception leaving calculatePosition would leave the loop and the method.
RECURSIVE PositionsFrom(_, _, _)
PositionsFrom(sats, i, result) ==
    IF i > Len(sats) THEN [satellites |-> result, escaped |-> FALSE]
    ELSE LET p == calculatePosition(sats[i])
         IN  IF p = Thrown THEN [satellites |-> result, escaped |-> TRUE]
             ELSE IF p = Null THEN PositionsFrom(sats, i + 1, result)
             ELSE PositionsFrom(sats, i + 1,
                      Append(result, [noradId |-> sats[i].noradId,
                                      satrec |-> sats[i].satrec,
                                      propagation |-> sats[i].propagation,
                                      position |-> p.position]))

\* getActiveSatellitesWithPositions()
getActiveSatellitesWithPositions(sats) == PositionsFrom(sats, 1, <<>>)

-----------------------------------------------------------------------------
(* Dashboard: the sound log *)

\* addSoundLogEntry(data): this.soundLogEntries afterwards.  Without the
\* element exp-log the call returns at once.
addSoundLogEntry(entries, data, hasLog) ==
    IF ~hasLog THEN entries
    ELSE Append(IF Len(entries) > LogLimit THEN Tail(entries) ELSE entries, data)

\* this.soundLogEntries after n calls, the k-th with entry k.
RECURSIVE LogAfter(_)
LogAfter(n) == IF n = 0 THEN <<>> ELSE addSoundLogEntry(LogAfter(n - 1), n, TRUE)

-----------------------------------------------------------------------------
(* AudioEngine *)

Sats == 1 .. NumSats

\* The positions SatelliteEngine hands to an update: either side of the grid
\* line at 170, which is also the edge of the screen.
EngineSamples ==
    [longitude : {165, 175}, latitude : {0}, altitude : {500},
     category : {"STATION"}]

\* The beacon jitter of an engine run: in a run of 1100 ms a larger jitter is
\* a failed beacon draw.
EngineJitters == {0}

\* The clock readings of an engine run: the same millisecond (inside the
\* throttle gap) and more than a second later (the statistics window and the
\* beacon interval have passed).
Instants == {Epoch, Epoch + 1100}

Min(a, b) == IF a < b THEN a ELSE b

\* minInterval of the ambient gate: 15000 + (1 - speedFactor) * 30000 with
\* speedFactor = 1 - min(altitude / 30000, 1) and altitude =
\* satellite.position.altitude || 500.  For the altitudes of the runs (whole
\* kilometres) the doubles of the program give this value, or one that no
\* whole number of milliseconds separates from it.
MinInterval(altitude) ==
    LET alt == IF altitude = 0 THEN DefaultAltitude ELSE altitude
    IN  AmbientFloor + Min(alt, AmbientSpan)

\* this.lastTriggerTime.get(satId) || 0
LastTriggerOf(m, satId) == IF satId \in DOMAIN m THEN m[satId] ELSE 0

\* The plays of the last second, as of clock t.
RECURSIVE Recent(_, _)
Recent(log, t) ==
    IF log = <<>> THEN <<>>
    ELSE IF Head(log) + StatsWindow <= t THEN Recent(Tail(log), t)
    ELSE log

\* Faulty variant: no ceiling.
CeilingOff(counter) == FALSE

\* if (this.eventCounter > maxVoices) return;
CeilingRejects(counter) == counter > MaxVoices

\* Faulty variants of the throttle: the test left out, and a gap of 50 ms.
ThrottleOff(t, glt) == FALSE

ThrottleHalved(t, glt) == t - glt < 50

\* if (now - this.globalLastTrigger < 100) return;
ThrottleRejects(t, glt) == t - glt < GlobalThrottle

\* Faulty variant: a matched rule whose draw fails falls through to the ambient
\* gate.
ShouldPlayFallThrough(shouldTrigger, timeSinceLast, altitude, gateCoin) ==
    IF shouldTrigger /\ gateCoin THEN TRUE
    ELSE timeSinceLast > MinInterval(altitude) /\ (shouldTrigger \/ gateCoin)

\* Faulty variant: the ambient gate does not wait for its interval.
ShouldPlayNoWait(shouldTrigger, timeSinceLast, altitude, gateCoin) == gateCoin

\* The two gates: a matched rule plays on its draw alone, an ambient candidate
\* when its interval has passed and its draw succeeds.
ShouldPlay(shouldTrigger, timeSinceLast, altitude, gateCoin) ==
    IF shouldTrigger THEN gateCoin
    ELSE timeSinceLast > MinInterval(altitude) /\ gateCoin

\* Faulty variant: globalLastTrigger is stamped as soon as a rule matched, before the
\* draw that decides whether it plays.
GlobalAfterMatch(glt, t, shouldTrigger, shouldPlay) ==
    IF shouldTrigger \/ shouldPlay THEN t ELSE glt

\* this.globalLastTrigger = now, inside the gate that set shouldPlay.
GlobalAfter(glt, t, shouldTrigger, shouldPlay) == IF shouldPlay THEN t ELSE glt

\* satellites.map(sat => this.mapToAudio(sat)) of mapCollective: the detector
\* runs on every satellite of the array, in order, from satellite i on.
RECURSIVE MapCollectiveFrom(_, _, _, _, _)
MapCollectiveFrom(i, states, fr, t, draws) ==
    IF i > Len(fr) THEN [states |-> states, rules |-> <<>>]
    ELSE LET r == checkTriggerRules(states, i, <<fr[i]>>, t,
                                    draws[i][1], draws[i][2])
             rest == MapCollectiveFrom(i + 1, r.states, fr, t, draws)
         IN  [states |-> rest.states, rules |-> <<r.rule>> \o rest.rules]

\* audioParams.note of mapToAudio: the phase is (longitude + 180) % 360.
mapToAudioNote(scale, key, sat) ==
    phaseToNote(scale, key, JsMod(sat.longitude + 180, 360), sat.category)

\* Faulty variant: the note goes to the player as mapToAudio gave it.
NoteToPlayFree(note, result) == note

\* noteToPlay of processSatellite: the note forced to the chord tones of
\* conductorResult.allowedNotes.
NoteToPlay(note, result) == constrainToChord(note, result.allowedNotes)

\* satellite.name of the satellite with the given identifier.
SatelliteName(satId) == <<"SAT", satId>>

\* Faulty variant: the observer is told the note before the chord constraint.
onSoundPlayedFreeNote(free, noteToPlay, name, triggerRule) == <<[note |-> free, satellite |-> name, reason |-> triggerRule]>>

\* The calls of this.onSoundPlayed an admitted processSatellite call makes:
\* one, with the note handed to Instruments.play, satellite.name and
\* audioParams.triggerRule.  The callback is the one setupInteractions
\* assigned before the first update; free is audioParams.note.
onSoundPlayed(free, noteToPlay, name, triggerRule) == <<[note |-> noteToPlay, satellite |-> name, reason |-> triggerRule]>>

\* processSatellite(satellite) at clock t: what it leaves in the detector and
\* scheduler state, and what it played.  jitter and beaconCoin are the draws of
\* the detector; gateCoin is the one draw of the gate the call reaches
\* (Math.random() < 0.15 on the rule path, Math.random() < density on the
\* ambient path).  scale and key are those of ScaleTheory, result the
\* conductorResult of the update; played holds the note of each
\* Instruments.play call and notified the argument of each onSoundPlayed
\* call; timeSinceLast is the local of that name (0 where the call returns
\* before it) and draw the outcome of the gate's Math.random() test.
processSatellite(states, ltt, glt, counter, satId, pos, t, jitter, beaconCoin, gateCoin, scale, key, result) ==
    IF CeilingRejects(counter)
    THEN [states |-> states, ltt |-> ltt, glt |-> glt, counter |-> counter,
          outcome |-> "ceiling", rule |-> "skipped", reason |-> NoRule,
          played |-> <<>>, notified |-> <<>>, timeSinceLast |-> 0,
          draw |-> FALSE]
    ELSE IF ThrottleRejects(t, glt)
    THEN [states |-> states, ltt |-> ltt, glt |-> glt, counter |-> counter,
          outcome |-> "throttle", rule |-> "skipped", reason |-> NoRule,
          played |-> <<>>, notified |-> <<>>, timeSinceLast |-> 0,
          draw |-> FALSE]
    ELSE
    LET r == checkTriggerRules(states, satId, <<pos>>, t, jitter, beaconCoin)
        timeSinceLast == t - LastTriggerOf(ltt, satId)
        shouldPlay == ShouldPlay(r.shouldTrigger, timeSinceLast, pos.altitude,
                                 gateCoin)
        glt1 == GlobalAfter(glt, t, r.shouldTrigger, shouldPlay)
        triggerRule == IF r.shouldTrigger THEN r.rule ELSE "FLOW"
        free == mapToAudioNote(scale, key, pos)
        noteToPlay == NoteToPlay(free, result)
    IN  IF shouldPlay
        THEN [states |-> r.states, ltt |-> MapSet(ltt, satId, t), glt |-> glt1,
              counter |-> counter + 1, outcome |-> "admitted",
              rule |-> r.rule, reason |-> triggerRule,
              played |-> <<noteToPlay>>,
              notified |-> onSoundPlayed(free, noteToPlay,
                                         SatelliteName(satId), triggerRule),
              timeSinceLast |-> timeSinceLast, draw |-> gateCoin]
        ELSE [states |-> r.states, ltt |-> ltt, glt |-> glt1,
              counter |-> counter,
              outcome |-> IF r.shouldTrigger THEN "rule-drop"
                          ELSE IF timeSinceLast > MinInterval(pos.altitude)
                               THEN "ambient-drop" ELSE "ambient-wait",
              rule |-> r.rule, reason |-> NoRule, played |-> <<>>,
              notified |-> <<>>, timeSinceLast |-> timeSinceLast,
              draw |-> gateCoin]

\* No function has been called.
NoCall == [op |-> "none"]

NoProc == [sat |-> 0, detected |-> NoRule, evaluations |-> 0, outcome |-> "none",
           rule |-> NoRule, reason |-> NoRule, played |-> <<>>,
           notified |-> <<>>, timeSinceLast |-> 0, draw |-> FALSE]

\* No update is running.
NoResult == [mood |-> "none", allowedNotes |-> <<>>]

\* Nothing has been recorded at a pause.
NoSnapshot == [simulatedTime |-> 0]

\* The state of the engines after construction with the given scale and key;
\* a is the function call a function run is about to make.
InitEngines(scale, key, a) ==
    /\ now = Epoch
    /\ previousStates = <<>>
    /\ trace = <<>>
    /\ lastCall = [position |-> <<>>, previous |-> <<>>, before |-> <<>>,
                   rule |-> NoRule, shouldTrigger |-> FALSE, detail |-> <<>>,
                   lastEvent |-> 0]
    /\ pc = "idle"
    /\ frame = <<>>
    /\ idx = 0
    /\ lastTriggerTime = <<>>
    /\ globalLastTrigger = 0
    /\ eventCounter = 0
    /\ lastStatsUpdate = Epoch
    /\ eventsPerSecond = 0
    /\ currentScale = scale
    /\ currentKey = key
    /\ admitLog = <<>>
    /\ detected = <<>>
    /\ lastProc = NoProc
    /\ chordIndex = 0
    /\ chordTimer = Epoch + ChordPeriod
    /\ conductorResult = NoResult
    /\ arg = a
    /\ ret = NoCall
    /\ simulatedTime = Epoch
    /\ isPlaying = TRUE
    /\ paused = FALSE
    /\ atPause = NoSnapshot

\* The application after start() has run: the audio engine is initialized and
\* one call of loop is pending.
InitWith(scale, key, a) ==
    /\ InitEngines(scale, key, a)
    /\ isRunning = TRUE
    /\ isInitialized = TRUE
    /\ startup = "started"
    /\ callbacks = 1
    /\ starts = <<>>
    /\ components = 1
    /\ conducting = {1}

\* this.currentScale = 'cosmic'; this.currentKey = 2;
Init == InitWith("cosmic", 2, NoCall)

\* update(satellites) up to its for loop: mapCollective, analyze and the
\* auto-conductor scale change.  fr is the array getActiveSatellitesWithPositions
\* returned, draws the beacon draws of the detector for each satellite.
UpdateBeginFrom(caller, t, fr, draws) ==
    LET mc == MapCollectiveFrom(1, previousStates, fr, t, draws)
    IN  /\ pc = caller
        /\ now' = t
        /\ previousStates' = mc.states
        /\ currentScale' = AutoConductorScale(currentScale)
        /\ frame' = fr
        /\ idx' = 1
        /\ pc' = "process"
        /\ detected' = mc.rules
        /\ admitLog' = Recent(admitLog, t)
        /\ conductorResult' = analyze(chordIndex)
        /\ UNCHANGED <<trace, lastCall, lastTriggerTime, globalLastTrigger,
                       eventCounter, lastStatsUpdate, eventsPerSecond,
                       currentKey, lastProc, chordIndex, chordTimer, arg, ret>>

\* update(satellites) called when no call of loop is under way in the model.
UpdateBegin(t, fr, draws) ==
    UpdateBeginFrom("idle", t, fr, draws) /\ UNCHANGED appVars

\* One pass of the for loop of update: processSatellite(satellites[idx]).
ProcessSatellite(t, jitter, beaconCoin, gateCoin) ==
    LET
        r == processSatellite(previousStates, lastTriggerTime, globalLastTrigger,
                              eventCounter, idx, frame[idx], t,
                              jitter, beaconCoin, gateCoin, currentScale,
                              currentKey, conductorResult)
    IN  /\ pc = "process"
        /\ now' = t
        /\ previousStates' = r.states
        /\ lastTriggerTime' = r.ltt
        /\ globalLastTrigger' = r.glt
        /\ eventCounter' = r.counter
        /\ admitLog' = IF r.outcome = "admitted"
                       THEN Append(Recent(admitLog, t), t)
                       ELSE Recent(admitLog, t)
        /\ lastProc' = [sat |-> idx, detected |-> Head(detected),
                        evaluations |-> IF r.rule = "skipped" THEN 1 ELSE 2,
                        outcome |-> r.outcome, rule |-> r.rule,
                        reason |-> r.reason, played |-> r.played,
                        notified |-> r.notified,
                        timeSinceLast |-> r.timeSinceLast, draw |-> r.draw]
        /\ detected' = Tail(detected)
        /\ idx' = idx + 1
        /\ pc' = IF idx = Len(frame) THEN "stats" ELSE "process"
        /\ UNCHANGED <<trace, lastCall, frame, lastStatsUpdate,
                       eventsPerSecond, currentScale, currentKey, chordIndex,
                       chordTimer, conductorResult, arg, ret, appVars>>

\* updateStats(), the last call of update.
UpdateStats(t) ==
        /\ pc = "stats"
        /\ now' = t
        /\ IF t - lastStatsUpdate >= StatsWindow
           THEN /\ eventsPerSecond' = eventCounter
                /\ eventCounter' = 0
                /\ lastStatsUpdate' = t
           ELSE UNCHANGED <<eventsPerSecond, eventCounter, lastStatsUpdate>>
        /\ pc' = "idle"
        /\ frame' = <<>>
        /\ idx' = 0
        /\ detected' = <<>>
        /\ lastProc' = NoProc
        /\ admitLog' = Recent(admitLog, t)
        /\ conductorResult' = NoResult
        /\ UNCHANGED <<previousStates, trace, lastCall, lastTriggerTime,
                       globalLastTrigger, currentScale, currentKey, chordIndex,
                       chordTimer, arg, ret, appVars>>

\* The clock readings open to the next step: Date.now() never runs backwards.
Later(instants) == {t \in instants : t >= now}

Next ==
    \/ \E t \in Later(Instants), fr \in [Sats -> EngineSamples],
          draws \in [Sats -> EngineJitters \X BOOLEAN] : UpdateBegin(t, fr, draws)
    \/ \E t \in Later(Instants), jitter \in EngineJitters, beaconCoin \in BOOLEAN,
          gateCoin \in BOOLEAN : ProcessSatellite(t, jitter, beaconCoin, gateCoin)
    \/ \E t \in Later(Instants) : UpdateStats(t)

Spec == Init /\ [][Next]_vars

-----------------------------------------------------------------------------
(* Burst runs: the engine offered many candidates at once.  Every satellite  *)
(* of the frame is at the same place, every probability gate lets its        *)
(* candidate through and no beacon draw succeeds, so that only the ceiling   *)
(* and the throttle of processSatellite stand between a candidate and the    *)
(* player.  An update runs within one clock reading; the clock moves between *)
(* updates.                                                                  *)

BurstSats == 1 .. BurstSize

\* All satellites at one longitude: off screen (175) or on it (165).
BurstFrame(lon) ==
    [i \in BurstSats |-> [longitude |-> lon, latitude |-> 0, altitude |-> 500,
                          category |-> "STATION"]]

BurstFrames == {BurstFrame(165), BurstFrame(175)}

BurstDraws == [i \in BurstSats |-> <<0, FALSE>>]

\* The clock readings of the updates: 50 ms after the start, every 100 ms for
\* 300 ms, and one more than a second after the start.
BurstInstants ==
    {Epoch + 50, Epoch + 1100} \cup {Epoch + 100 * k : k \in 0 .. 3}

NextBurst ==
    \/ \E t \in Later(BurstInstants), fr \in BurstFrames :
          UpdateBegin(t, fr, BurstDraws)
    \/ ProcessSatellite(now, 0, FALSE, TRUE)
    \/ UpdateStats(now)

SpecBurst == Init /\ [][NextBurst]_vars

-----------------------------------------------------------------------------
(* Slow runs: burst runs in which the clock moves on within an update.  Each  *)
(* processSatellite call reads Date.now() 100 ms after the call before it,    *)
(* so that the throttle lets every candidate through and the ceiling is the   *)
(* one test left between a candidate and the player.                          *)

\* Two satellites more than the ceiling lets through.
SlowSats == 1 .. MaxVoices + 3

SlowFrame(lon) ==
    [i \in SlowSats |-> [longitude |-> lon, latitude |-> 0, altitude |-> 500,
                         category |-> "STATION"]]

SlowFrames == {SlowFrame(165), SlowFrame(175)}

SlowDraws == [i \in SlowSats |-> <<0, FALSE>>]

\* How long the for loop of a slow update takes.
SlowSpan == (MaxVoices + 3) * GlobalThrottle

NextSlow ==
    \/ \E t \in {now, now + GlobalThrottle \div 2}, fr \in SlowFrames :
          now < Epoch + MaxSlow * SlowSpan /\ UpdateBegin(t, fr, SlowDraws)
    \/ ProcessSatellite(now + GlobalThrottle, 0, FALSE, TRUE)
    \/ UpdateStats(now)

SpecSlow == Init /\ [][NextSlow]_vars

-----------------------------------------------------------------------------
(* Conductor runs: the engine updated with one satellite while the chord     *)
(* walker of AIConductor.startConducting moves on every 8 seconds.  An       *)
(* update runs to its end within one turn of the event loop, so the timer's  *)
(* callback runs between updates only; it runs when it is due, so no update *)
(* reads a clock past that time.                                             *)

\* The satellites of a conductor run: longitudes whose free notes are E, C#
\* and D under D lydian, in the lowest and the highest register, at altitudes
\* whose ambient intervals are 15.5 and 16 seconds.
ConductSamples ==
    [longitude : {-100, 165, 180}, latitude : {0}, altitude : {500, 1000},
     category : {"STATION", "DEBRIS"}]

\* The clock readings of the updates: the times the timer is due.
ConductInstants == {Epoch + ChordPeriod * k : k \in 0 .. MaxChords}

\* Faulty variant: the walker skips a chord.
NextChordIndexSkip(i) == (i + 2) % Len(progression)

\* (this.chordIndex + 1) % progression.length
NextChordIndex(i) == (i + 1) % Len(progression)

\* The callback of setInterval in startConducting.
AdvanceChord ==
    /\ pc = "idle"
    /\ chordTimer <= Epoch + ChordPeriod * MaxChords
    /\ now' = chordTimer
    /\ chordIndex' = NextChordIndex(chordIndex)
    /\ chordTimer' = chordTimer + ChordPeriod
    /\ UNCHANGED <<previousStates, trace, lastCall, pc, frame, idx,
                   lastTriggerTime, globalLastTrigger, eventCounter,
                   lastStatsUpdate, eventsPerSecond, currentScale, currentKey,
                   admitLog, detected, lastProc, conductorResult, arg, ret,
                   appVars>>

NextConduct ==
    \/ \E t \in Later(ConductInstants), fr \in [{1} -> ConductSamples] :
          t <= chordTimer /\ UpdateBegin(t, fr, <<<<0, FALSE>>>>)
    \/ \E gateCoin \in BOOLEAN : ProcessSatellite(now, 0, FALSE, gateCoin)
    \/ UpdateStats(now)
    \/ AdvanceChord

SpecConduct == Init /\ [][NextConduct]_vars

-----------------------------------------------------------------------------
(* App runs: the engine updated with one satellite while the user works the  *)
(* controls of the dashboard.  A control's handler runs between updates.     *)
(* arg holds the last call a control made.                                   *)

\* The keys and modes of the Scale / Key control used in an app run.
UserKeys == {"A", "F#"}

UserModes == {"minor", "lydian"}

\* AudioEngine.setScale(key, mode), the onScaleChange callback.
UserSetScale(key, mode) ==
    /\ pc = "idle"
    /\ currentKey' = setKey(currentKey, key)
    /\ currentScale' = setMode(currentScale, mode)
    /\ arg' = [op |-> "AudioEngine.setScale", key |-> key, mode |-> mode]
    /\ UNCHANGED <<detVars, pc, frame, idx, lastTriggerTime, globalLastTrigger,
                   eventCounter, lastStatsUpdate, eventsPerSecond, admitLog,
                   detected, lastProc, chordIndex, chordTimer, conductorResult,
                   ret, appVars>>

NextApp ==
    \/ \E t \in Later(Instants), fr \in [{1} -> EngineSamples],
          coin \in BOOLEAN : UpdateBegin(t, fr, <<<<0, coin>>>>)
    \/ \E beaconCoin \in BOOLEAN, gateCoin \in BOOLEAN :
          ProcessSatellite(now, 0, beaconCoin, gateCoin)
    \/ UpdateStats(now)
    \/ \E key \in UserKeys, mode \in UserModes : UserSetScale(key, mode)

SpecApp == Init /\ [][NextApp]_vars

-----------------------------------------------------------------------------
(* Pause runs: the application from the click on START on, with one          *)
(* satellite, while the user works the PLAY / PAUSE button.  The button is    *)
(* shown from the click on START on; a click on it is handled between calls  *)
(* of loop, never within one.                                                *)

\* this.timeScale = 30
timeScale == 30

\* The deltaTime loop passes to SatelliteEngine.update.
FrameDelta == 16

\* SatelliteEngine.isRunning: true from construction on; toggleRunning, the
\* one method that writes it, has no caller.
satelliteEngineIsRunning == TRUE

\* Faulty variant: update advances the clock whether the engine runs or not.
satelliteUpdateAlways(time, running, deltaTime) == time + deltaTime * timeScale

\* SatelliteEngine.update(deltaTime): this.simulatedTime afterwards.
satelliteUpdate(time, running, deltaTime) ==
    IF ~running THEN time ELSE time + deltaTime * timeScale

\* AudioEngine.update returns at once.
UpdateReturnsAtOnce == ~isInitialized \/ ~isPlaying

\* What a pause is compared with: the simulated clock and the state of the
\* trigger detector and the scheduler.
Snapshot ==
    [simulatedTime |-> simulatedTime, previousStates |-> previousStates,
     lastTriggerTime |-> lastTriggerTime, globalLastTrigger |-> globalLastTrigger,
     eventCounter |-> eventCounter, currentScale |-> currentScale,
     currentKey |-> currentKey, startup |-> startup]

\* The application after OrbitalResonanceApp.initialize: nothing started.
InitPause ==
    /\ InitEngines("cosmic", 2, NoCall)
    /\ isRunning = FALSE
    /\ isInitialized = FALSE
    /\ startup = "ready"
    /\ callbacks = 0
    /\ starts = <<>>
    /\ components = 0
    /\ conducting = {}

\* The click on START: start() up to its await of audioEngine.initialize().
StartClick ==
    /\ pc = "idle"
    /\ startup = "ready"
    /\ startup' = "starting"
    /\ UNCHANGED <<detVars, engineVars, callVars, isRunning, isPlaying,
                   isInitialized, simulatedTime, callbacks, paused, atPause, starts, components, conducting>>

\* audioEngine.initialize() has resolved: start() sets isRunning and calls loop.
StartDone ==
    /\ pc = "idle"
    /\ startup = "starting"
    /\ isInitialized' = TRUE
    /\ isRunning' = TRUE
    /\ startup' = "started"
    /\ components' = components + 1
    /\ conducting' = conducting \cup {components + 1}
    /\ pc' = "loop"
    /\ UNCHANGED <<detVars, frame, idx, lastTriggerTime, globalLastTrigger,
                   eventCounter, lastStatsUpdate, eventsPerSecond, currentScale,
                   currentKey, admitLog, detected, lastProc, chordIndex,
                   chordTimer, conductorResult, callVars, isPlaying,
                   simulatedTime, callbacks, paused, atPause, starts>>

\* A callback of requestAnimationFrame runs: it calls loop.
AnimationFrame ==
    /\ pc = "idle"
    /\ callbacks > 0
    /\ callbacks' = callbacks - 1
    /\ pc' = "loop"
    /\ UNCHANGED <<detVars, frame, idx, lastTriggerTime, globalLastTrigger,
                   eventCounter, lastStatsUpdate, eventsPerSecond, currentScale,
                   currentKey, admitLog, detected, lastProc, chordIndex,
                   chordTimer, conductorResult, callVars, isRunning, isPlaying,
                   isInitialized, simulatedTime, startup, paused, atPause, starts, components, conducting>>

\* loop(): nothing when the application does not run; otherwise
\* satelliteEngine.update(16), audioEngine.update(satellites) up to its for
\* loop, and the request of the next animation frame.
Loop(t, fr, draws) ==
    /\ pc = "loop"
    /\ IF ~isRunning
       THEN /\ pc' = "idle"
            /\ UNCHANGED <<detVars, frame, idx, lastTriggerTime,
                           globalLastTrigger, eventCounter, lastStatsUpdate,
                           eventsPerSecond, currentScale, currentKey, admitLog,
                           detected, lastProc, chordIndex, chordTimer,
                           conductorResult, callVars, appVars>>
       ELSE /\ simulatedTime < Epoch + MaxTicks * FrameDelta * timeScale
            /\ simulatedTime' = satelliteUpdate(simulatedTime,
                                                satelliteEngineIsRunning,
                                                FrameDelta)
            /\ callbacks' = callbacks + 1
            /\ IF UpdateReturnsAtOnce
               THEN /\ pc' = "idle"
                    /\ UNCHANGED <<detVars, frame, idx, lastTriggerTime,
                                   globalLastTrigger, eventCounter,
                                   lastStatsUpdate, eventsPerSecond,
                                   currentScale, currentKey, admitLog, detected,
                                   lastProc, chordIndex, chordTimer,
                                   conductorResult, callVars>>
               ELSE UpdateBeginFrom("loop", t, fr, draws)
            /\ UNCHANGED <<isRunning, isPlaying, isInitialized, startup, paused,
                           atPause, starts, components, conducting>>

\* The click on PAUSE: pause() { this.isRunning = false; this.audioEngine.pause(); }
Pause ==
    /\ pc = "idle"
    /\ startup # "ready"
    /\ ~paused
    /\ isRunning' = FALSE
    /\ isPlaying' = FALSE
    /\ paused' = TRUE
    /\ atPause' = Snapshot
    /\ UNCHANGED <<detVars, engineVars, callVars, isInitialized, simulatedTime,
                   startup, callbacks, starts, components, conducting>>

\* The click on PLAY: resume() { this.isRunning = true;
\* this.audioEngine.resume(); this.loop(); }
Resume ==
    /\ pc = "idle"
    /\ paused
    /\ callbacks < MaxLoops
    /\ isRunning' = TRUE
    /\ isPlaying' = TRUE
    /\ paused' = FALSE
    /\ pc' = "loop"
    /\ UNCHANGED <<detVars, frame, idx, lastTriggerTime, globalLastTrigger,
                   eventCounter, lastStatsUpdate, eventsPerSecond, currentScale,
                   currentKey, admitLog, detected, lastProc, chordIndex,
                   chordTimer, conductorResult, callVars, isInitialized,
                   simulatedTime, startup, callbacks, atPause, starts, components, conducting>>

NextPause ==
    \/ StartClick
    \/ StartDone
    \/ AnimationFrame
    \/ \E t \in Later(Instants), fr \in [{1} -> EngineSamples],
          coin \in BOOLEAN : Loop(t, fr, <<<<0, coin>>>>)
    \/ \E beaconCoin \in BOOLEAN, gateCoin \in BOOLEAN :
          ProcessSatellite(now, 0, beaconCoin, gateCoin)
    \/ UpdateStats(now)
    \/ Pause
    \/ Resume

SpecPause == InitPause /\ [][NextPause]_vars

-----------------------------------------------------------------------------
(* Detector runs: checkTriggerRules called on one entity, sample by sample *)

InitDetector == Init

\* When the calls made so far last reported a rule (0: never).  now is the
\* time of the last call.
LastEvent == IF lastCall.rule # NoRule THEN now ELSE lastCall.lastEvent

\* One call with a valid sample, d ms after the previous one.
CallCheck(d, pos, jitter, coin) ==
    LET t == now + d
        r == checkTriggerRules(previousStates, DetSat, <<pos>>, t, jitter, coin)
    IN  /\ Len(trace) < MaxCalls
        /\ now' = t
        /\ previousStates' = r.states
        /\ trace' = Append(trace, <<IF IsOnScreen(pos) THEN "on" ELSE "off", r.rule>>)
        /\ lastCall' = [position |-> <<pos>>,
                        previous |-> lastCall.position,
                        before |-> <<PrevStateOf(previousStates, DetSat, pos)>>,
                        rule |-> r.rule, shouldTrigger |-> r.shouldTrigger,
                        detail |-> r.detail, lastEvent |-> LastEvent]
        /\ UNCHANGED <<engineVars, callVars, appVars>>

\* One call for a satellite that has no position.
CallMissing(d) ==
    LET t == now + d
        r == checkTriggerRules(previousStates, DetSat, <<>>, t, 0, TRUE)
    IN  /\ Len(trace) < MaxCalls
        /\ now' = t
        /\ previousStates' = r.states
        /\ trace' = Append(trace, <<"missing", r.rule>>)
        /\ lastCall' = [position |-> <<>>, previous |-> lastCall.position,
                        before |-> <<>>, rule |-> r.rule,
                        shouldTrigger |-> r.shouldTrigger, detail |-> r.detail,
                        lastEvent |-> LastEvent]
        /\ UNCHANGED <<engineVars, callVars, appVars>>

NextDetector ==
    \/ \E d \in DetDelays, pos \in Samples, jitter \in Jitters, coin \in BOOLEAN :
          CallCheck(d, pos, jitter, coin)
    \/ \E d \in DetDelays : CallMissing(d)

SpecDetector == InitDetector /\ [][NextDetector]_vars

-----------------------------------------------------------------------------
(* Function runs: one function called once on arguments drawn from a bounded *)
(* set.  arg holds the call, ret what it returned.                           *)

\* Altitudes at both ends of every band of triggerRules.zoneChange.zones.
Altitudes == {0, 1999, 2000, 19999, 20000, 49999, 50000, 60000}

\* getZone(altitude, zones)
ZoneInputs == [op : {"getZone"}, altitude : Altitudes]

\* checkTriggerRules on a stored record and a sample: the sample stays in the
\* longitude bin of the record (5) or leaves it (15); the record was on screen
\* or not; the beacon timer was set in the same millisecond.
RuleInputs ==
    [op : {"checkTriggerRules"},
     prev : [longitude : {5}, latitude : {84}, altitude : Altitudes,
             wasOnScreen : BOOLEAN, lastBeacon : {Epoch}],
     pos : [longitude : {5, 15}, latitude : {84}, altitude : Altitudes]]

\* satellite.category, as DataFetcher.categorize gives it.
Categories ==
    {"STATION", "COMMUNICATION", "NAVIGATION", "WEATHER", "SCIENCE", "DEBRIS"}

\* Phases in degrees: either side of the steps of the scales of 5, 6 and 7
\* notes, the ends of [0, 360), and phases below 0 and from 360 on.
Phases ==
    {-370, -360, -1, 0, 1, 51, 52, 59, 60, 71, 72, 180, 300, 359, 360, 719, 720}

Keys == 0 .. 11

\* phaseToNote(phase, category)
PhaseInputs == [op : {"phaseToNote"}, phase : Phases, category : Categories]

\* The note lists handed to calculateDissonance and identifyChord.
NoteLists(noteSet) == UNION {[1 .. k -> noteSet] : k \in 0 .. MaxNotes}

\* Three neighbouring notes of octave 3 and a fifth above.
DissonanceNotes ==
    [name : {"C", "C#", "D#"}, octave : {3}] \cup {[name |-> "G", octave |-> 4]}

\* calculateDissonance(notes)
DissonanceInputs == [op : {"calculateDissonance"}, notes : NoteLists(DissonanceNotes)]

\* Notes of the triads on D (major, minor, diminished), and the D above.
ChordNotes ==
    [name : {"D", "F", "F#", "G#", "A"}, octave : {4}]
        \cup {[name |-> "D", octave |-> 5]}

\* identifyChord(notes)
ChordInputs == [op : {"identifyChord"}, notes : NoteLists(ChordNotes)]

\* Notes handed to constrainToChord: names in and out of the chords at the
\* lowest, a middle and the highest one-digit octave, and what phaseToNote
\* returns for a negative phase.
FreeNotes == [name : {"C", "D", "G#", "B", Undefined}, octave : {0, 4, 9}]

\* The allowed lists: the chords of the progression, one-note lists, and the
\* empty list.
AllowedLists ==
    {progression[i] : i \in DOMAIN progression} \cup {<<>>, <<"C">>, <<"B">>}

\* constrainToChord(note, allowedNotes)
ConstrainInputs ==
    [op : {"constrainToChord"}, note : FreeNotes, allowed : AllowedLists]

\* Scale names handed to the setters: one of the table, one of no object,
\* and the inherited ones.
ScaleArgs == {"minor", "phrygian"} \cup InheritedNames

\* Key names handed to the setters: a pitch class, a name that is none, and
\* the argument left out.
KeyArgs == {"A", "H", Undefined}

\* setScale(scaleName, keyNote), setKey(keyNote), setMode(modeName)
SetterInputs ==
    [op : {"setScale"}, scaleName : ScaleArgs, keyNote : KeyArgs]
        \cup [op : {"setKey"}, keyNote : KeyArgs \ {Undefined}]
        \cup [op : {"setMode"}, modeName : ScaleArgs]

\* analyze(collective): the density, dissonance and intensity of the
\* collective.  Densities are either side of the climax threshold; the
\* dissonances are 0.1 and 0.5, the intensities 0.3, 0.5 (the one mapCollective
\* gives) and 0.9.
AnalyzeInputs ==
    [op : {"analyze"}, density : {5, 40},
     dissonance : {consonance[2], consonance[11]},
     intensity : {consonance[12], consonance[11], consonance[6]}]

\* n density samples, the last k of them lo + 1 and the others lo.
Mix(n, lo, k) == [i \in 1 .. n |-> IF i > n - k THEN lo + 1 ELSE lo]

\* The samples before the ten most recent: ten of mean 1.5, ten and five of
\* 10, and twenty-five of 10.
OlderParts == {Mix(10, 1, 5), Mix(10, 10, 0), Mix(5, 10, 0), Mix(25, 10, 0)}

\* The ten most recent samples: of mean 1.2, 1.8, 7, 8, 10, 12, 12.1 and 30.
RecentParts ==
    {Mix(10, 1, 2), Mix(10, 1, 8), Mix(10, 7, 0), Mix(10, 8, 0), Mix(10, 10, 0),
     Mix(10, 12, 0), Mix(10, 12, 1), Mix(10, 30, 0)}

\* Density rising from 10 over 20 to 30 in 20 samples.
Ramp == [i \in 1 .. 20 |-> 9 + i + (i \div 20)]

\* this.history.density when isBuilding or isCalming is called: none, nine
\* and ten samples, an older part followed by a recent part, and the ramp.
TrendHistories ==
    {Mix(n, 10, 0) : n \in {0, 9, 10}}
        \cup {older \o recent : older \in OlderParts, recent \in RecentParts}
        \cup {Ramp}

\* isBuilding(), isCalming()
TrendInputs == [op : {"isBuilding", "isCalming"}, density : TrendHistories]

\* this.history after n calls of updateHistory, the i-th with density i, no
\* dissonance and no notes.
HistoryOf(n) ==
    [dissonance |-> [i \in 1 .. n |-> Zero], density |-> [i \in 1 .. n |-> i],
     notes |-> [i \in 1 .. n |-> <<>>]]

\* updateHistory(dissonance, density, notes) on an empty history, a short
\* one, and one that is one sample short of full and full.
HistoryInputs ==
    [op : {"updateHistory"},
     history : {HistoryOf(n) : n \in {0, 5, maxHistory - 1, maxHistory}},
     dissonance : {Zero, consonance[11]}, density : {0, 7},
     notes : {<<>>, <<[name |-> "D", octave |-> 3]>>}]

\* The calls that read or write the scale and key of ScaleTheory.
\* What the catalogue and satellite.propagate hold for a satellite in a tick:
\* no satrec at all, a position, position false, or an exception.
Propagations == {"no-satrec", "position", "false", "throws"}

\* this.activeSatellites with the given propagations, in catalogue order.
ActiveOf(kinds) ==
    [i \in 1 .. Len(kinds) |->
        [noradId |-> i, satrec |-> kinds[i] # "no-satrec",
         propagation |-> kinds[i]]]

\* getActiveSatellitesWithPositions() on every list of up to MaxActive
\* satellites.
ActiveInputs ==
    [op : {"getActiveSatellitesWithPositions"},
     satellites : {ActiveOf(kinds) :
                     kinds \in UNION {[1 .. n -> Propagations] : n \in 0 .. MaxActive}}]

\* Altitudes up to and past the 30000 km at which the ambient interval stops
\* growing; the program's doubles give whole intervals for all of them.
GateAltitudes == {0, 1, 250, 1000, 15000, 29999, 30000, 30001, 60000}

\* minInterval of processSatellite for two satellites.
IntervalInputs == [op : {"minInterval"}, low : GateAltitudes, high : GateAltitudes]

\* addSoundLogEntry after up to MaxEntries earlier calls.
LogInputs == [op : {"addSoundLogEntry"}, calls : 0 .. MaxEntries, hasLog : BOOLEAN]

\* setHarmonyMode(mode) with the four modes of its table and one of none.
HarmonyInputs ==
    [op : {"setHarmonyMode"},
     mode : {"consonant", "pentatonic", "chaotic", "ambient", "dissonant"}]

ScaleOps == {"phaseToNote", "setScale", "setKey", "setMode", "setHarmonyMode"}

-----------------------------------------------------------------------------
(* DataFetcher: the entities loaded, and the key their state is kept under *)

\* const groups = [stations, starlink, gps-ops, weather, science]
GroupNames == {"stations", "starlink", "gps-ops", "weather", "science"}

\* noradId: 10000 + idx
FallbackBase == 10000

\* What a fetch that succeeds yields for a group (parseTLE: the name line and
\* noradId: parseInt(line1.substring(2, 7)), the catalogue number): two
\* entities a group, fewer than any limit of fetchAllGroups.
Catalogue(group) ==
    CASE group = "stations" -> <<[name |-> <<"ISS (ZARYA)">>, noradId |-> 25544],
                                 [name |-> <<"CSS (TIANHE)">>, noradId |-> 48274]>>
      [] group = "starlink" -> <<[name |-> <<"STARLINK-", 1007>>, noradId |-> 44713],
                                 [name |-> <<"STARLINK-", 1008>>, noradId |-> 44714]>>
      [] group = "gps-ops" -> <<[name |-> <<"GPS BIIR-", 2>>, noradId |-> 24876],
                                [name |-> <<"GPS BIIR-", 4>>, noradId |-> 26360]>>
      [] group = "weather" -> <<[name |-> <<"NOAA-", 15>>, noradId |-> 25338],
                                [name |-> <<"NOAA-", 18>>, noradId |-> 28654]>>
      [] OTHER -> <<[name |-> <<"HST (HUBBLE)">>, noradId |-> 20580],
                    [name |-> <<"SWIFT">>, noradId |-> 28485]>>

\* getFallbackData(group): demoData[group] mapped to entities; idx, from 0, is
\* the place in the group's own list.
getFallbackData(group) ==
    LET demoData ==
            CASE group = "stations" -> <<<<"ISS (ZARYA)">>>>
              [] group = "starlink" -> [i \in 1 .. DemoCount |-> <<"STARLINK-", 1000 + (i - 1)>>]
              [] group = "gps-ops" -> [i \in 1 .. DemoCount |-> <<"GPS BIIR-", (i - 1) + 1>>]
              [] group = "weather" -> [i \in 1 .. DemoCount |-> <<"NOAA-", 15 + (i - 1)>>]
              [] group = "science" -> <<<<"HST (HUBBLE)">>>>
              [] OTHER -> <<>>
    IN  [i \in 1 .. Len(demoData) |->
            [name |-> demoData[i], noradId |-> FallbackBase + (i - 1)]]

\* fetchGroup(group): the parsed data, or the fallback data when the fetch
\* fails or times out.
fetchGroup(group, failed) ==
    IF failed THEN getFallbackData(group) ELSE Catalogue(group)

\* fetchAllGroups(): the entities of all five groups, each with its group.
\* The list is given as a set: its order, shuffled group by group, is left
\* out.
fetchAllGroups(failedGroups) ==
    UNION {LET satellites == fetchGroup(g, g \in failedGroups)
           IN  {[name |-> satellites[i].name, noradId |-> satellites[i].noradId,
                 group |-> g] : i \in 1 .. Len(satellites)} : g \in GroupNames}

\* const satId = satellite.noradId || satellite.name
stateKey(sat) ==
    IF sat.noradId # 0 THEN [noradId |-> sat.noradId] ELSE [name |-> sat.name]

\* Inputs of a function run: the groups whose fetch fails.
FetchInputs == {[op |-> "fetchAllGroups", failed |-> f] : f \in SUBSET GroupNames}

CallInputs ==
    ZoneInputs \cup RuleInputs \cup PhaseInputs \cup DissonanceInputs
        \cup ChordInputs \cup ConstrainInputs \cup SetterInputs
        \cup AnalyzeInputs \cup TrendInputs \cup HistoryInputs
        \cup ActiveInputs \cup IntervalInputs \cup LogInputs \cup HarmonyInputs
        \cup FetchInputs

\* Scale and key are those of the constructor, or for phaseToNote any the
\* scale and key selectors can set.
InitCalls ==
    \E a \in CallInputs, scale \in ScaleNames, key \in Keys :
        /\ a.op \in ScaleOps \/ (scale = "cosmic" /\ key = 2)
        /\ InitWith(scale, key, a)

CallGetZone ==
    /\ arg.op = "getZone"
    /\ ret = NoCall
    /\ ret' = [op |-> "getZone", value |-> getZone(arg.altitude)]
    /\ UNCHANGED <<detVars, engineVars, arg, appVars>>

CallCheckTriggerRules ==
    LET r == checkTriggerRules(MapSet(<<>>, DetSat, arg.prev), DetSat,
                               <<arg.pos>>, now, 0, TRUE)
    IN  /\ arg.op = "checkTriggerRules"
        /\ ret = NoCall
        /\ ret' = [op |-> "checkTriggerRules", rule |-> r.rule,
                   detail |-> r.detail, stored |-> r.states[DetSat]]
        /\ UNCHANGED <<detVars, engineVars, arg, appVars>>

CallPhaseToNote ==
    /\ arg.op = "phaseToNote"
    /\ ret = NoCall
    /\ ret' = [op |-> "phaseToNote",
               value |-> phaseToNote(currentScale, currentKey, arg.phase,
                                     arg.category)]
    /\ UNCHANGED <<detVars, engineVars, arg, appVars>>

CallCalculateDissonance ==
    /\ arg.op = "calculateDissonance"
    /\ ret = NoCall
    /\ ret' = [op |-> "calculateDissonance", value |-> calculateDissonance(arg.notes)]
    /\ UNCHANGED <<detVars, engineVars, arg, appVars>>

CallIdentifyChord ==
    /\ arg.op = "identifyChord"
    /\ ret = NoCall
    /\ ret' = [op |-> "identifyChord", value |-> identifyChord(arg.notes)]
    /\ UNCHANGED <<detVars, engineVars, arg, appVars>>

CallConstrainToChord ==
    /\ arg.op = "constrainToChord"
    /\ ret = NoCall
    /\ ret' = [op |-> "constrainToChord",
               value |-> constrainToChord(arg.note, arg.allowed)]
    /\ UNCHANGED <<detVars, engineVars, arg, appVars>>

CallAnalyze ==
    /\ arg.op = "analyze"
    /\ ret = NoCall
    /\ ret' = [op |-> "analyze", mood |-> analyze(chordIndex).mood,
               allowedNotes |-> analyze(chordIndex).allowedNotes]
    /\ UNCHANGED <<detVars, engineVars, arg, appVars>>

CallIsBuilding ==
    /\ arg.op = "isBuilding"
    /\ ret = NoCall
    /\ ret' = [op |-> "isBuilding", value |-> isBuilding(arg.density)]
    /\ UNCHANGED <<detVars, engineVars, arg, appVars>>

CallIsCalming ==
    /\ arg.op = "isCalming"
    /\ ret = NoCall
    /\ ret' = [op |-> "isCalming", value |-> isCalming(arg.density)]
    /\ UNCHANGED <<detVars, engineVars, arg, appVars>>

CallUpdateHistory ==
    /\ arg.op = "updateHistory"
    /\ ret = NoCall
    /\ ret' = [op |-> "updateHistory",
               history |-> updateHistory(arg.history, arg.dissonance,
                                         arg.density, arg.notes)]
    /\ UNCHANGED <<detVars, engineVars, arg, appVars>>

CallGetActiveSatellitesWithPositions ==
    LET r == getActiveSatellitesWithPositions(arg.satellites)
    IN  /\ arg.op = "getActiveSatellitesWithPositions"
        /\ ret = NoCall
        /\ ret' = [op |-> "getActiveSatellitesWithPositions",
                   satellites |-> r.satellites, escaped |-> r.escaped]
        /\ UNCHANGED <<detVars, engineVars, arg, appVars>>

\* processSatellite up to const minInterval, for two satellites.
CallMinInterval ==
    /\ arg.op = "minInterval"
    /\ ret = NoCall
    /\ ret' = [op |-> "minInterval", low |-> MinInterval(arg.low),
               high |-> MinInterval(arg.high)]
    /\ UNCHANGED <<detVars, engineVars, arg, appVars>>

CallAddSoundLogEntry ==
    /\ arg.op = "addSoundLogEntry"
    /\ ret = NoCall
    /\ ret' = [op |-> "addSoundLogEntry",
               entries |-> addSoundLogEntry(LogAfter(arg.calls), arg.calls + 1,
                                            arg.hasLog)]
    /\ UNCHANGED <<detVars, engineVars, arg, appVars>>

CallFetchAllGroups ==
    /\ arg.op = "fetchAllGroups"
    /\ ret = NoCall
    /\ ret' = [op |-> "fetchAllGroups", satellites |-> fetchAllGroups(arg.failed)]
    /\ UNCHANGED <<detVars, engineVars, arg, appVars>>

\* What every action of a function run leaves alone but the scale and key.
UnchangedButScale ==
    UNCHANGED <<detVars, pc, frame, idx, lastTriggerTime, globalLastTrigger,
                eventCounter, lastStatsUpdate, eventsPerSecond, admitLog,
                detected, lastProc, chordIndex, chordTimer, conductorResult, arg,
                appVars>>

CallSetScale ==
    LET r == setScale(currentScale, currentKey, arg.scaleName, arg.keyNote)
    IN  /\ arg.op = "setScale"
        /\ ret = NoCall
        /\ currentScale' = r.scale
        /\ currentKey' = r.key
        /\ ret' = [op |-> "setScale", scale |-> currentScale, key |-> currentKey]
        /\ UnchangedButScale

CallSetKey ==
    /\ arg.op = "setKey"
    /\ ret = NoCall
    /\ currentKey' = setKey(currentKey, arg.keyNote)
    /\ ret' = [op |-> "setKey", scale |-> currentScale, key |-> currentKey]
    /\ UNCHANGED currentScale
    /\ UnchangedButScale

CallSetMode ==
    /\ arg.op = "setMode"
    /\ ret = NoCall
    /\ currentScale' = setMode(currentScale, arg.modeName)
    /\ ret' = [op |-> "setMode", scale |-> currentScale, key |-> currentKey]
    /\ UNCHANGED currentKey
    /\ UnchangedButScale

CallSetHarmonyMode ==
    /\ arg.op = "setHarmonyMode"
    /\ ret = NoCall
    /\ currentScale' = setHarmonyMode(arg.mode)
    /\ ret' = [op |-> "setHarmonyMode", scale |-> currentScale, key |-> currentKey]
    /\ UNCHANGED currentKey
    /\ UnchangedButScale

NextCalls ==
    \/ CallGetZone
    \/ CallCheckTriggerRules
    \/ CallPhaseToNote
    \/ CallCalculateDissonance
    \/ CallIdentifyChord
    \/ CallConstrainToChord
    \/ CallSetScale
    \/ CallSetKey
    \/ CallSetMode
    \/ CallAnalyze
    \/ CallIsBuilding
    \/ CallIsCalming
    \/ CallUpdateHistory
    \/ CallGetActiveSatellitesWithPositions
    \/ CallMinInterval
    \/ CallAddSoundLogEntry
    \/ CallSetHarmonyMode
    \/ CallFetchAllGroups

SpecCalls == InitCalls /\ [][NextCalls]_vars

-----------------------------------------------------------------------------
(* The scheduler's rate limits, checked on burst runs (SpecBurst) *)

\* The plays whose time lies in the second that ends now.
WindowCount == Len(SelectSeq(admitLog, LAMBDA x : x + StatsWindow > now))

\* C1: however many candidates the updates offer, the number of events
\* admitted within any rolling 1-second window never exceeds the ceiling of 15.
\* (Every window is the second that ends at its last admission.)
C1_WindowWithinCeiling == WindowCount <= MaxVoices

\* C1 witness: four events were admitted within a second and the candidate just
\* offered was turned away by the throttle.
C1_Witness == WindowCount >= 4 /\ lastProc.outcome = "throttle"

\* C2: any two successive admitted events, of any satellites and in any
\* updates, are at least 100 ms apart.
C2_SuccessiveAdmissionsApart ==
    \A i \in 1 .. Len(admitLog) - 1 : admitLog[i + 1] - admitLog[i] >= GlobalThrottle

\* C2 witness: two satellites were admitted exactly 100 ms apart, the second
\* one by the call just made.
C2_Witness ==
    /\ lastProc.outcome = "admitted"
    /\ Len(admitLog) >= 2
    /\ admitLog[Len(admitLog)] - admitLog[Len(admitLog) - 1] = GlobalThrottle
    /\ \E a, b \in DOMAIN lastTriggerTime :
          a # b /\ lastTriggerTime[b] - lastTriggerTime[a] = GlobalThrottle

-----------------------------------------------------------------------------
(* The scheduler's bookkeeping, checked on engine runs (Spec) *)

\* C3: a processSatellite call that rejects its candidate leaves the
\* per-satellite last-trigger map, the global last-trigger time and the event
\* counter as they were; a call that admits stamps both times and counts one.
C3_RejectLeavesSchedulerState ==
    [][pc = "process" =>
         IF lastProc'.outcome = "admitted"
         THEN /\ eventCounter' = eventCounter + 1
              /\ globalLastTrigger' = now'
              /\ lastTriggerTime' = MapSet(lastTriggerTime, idx, now')
         ELSE UNCHANGED <<lastTriggerTime, globalLastTrigger, eventCounter>>]_vars

\* C3 witness: a candidate of a satellite that had played before was rejected
\* because its ambient interval had not passed.
C3_Witness ==
    /\ lastProc.outcome = "ambient-wait"
    /\ lastProc.sat \in DOMAIN lastTriggerTime
    /\ eventCounter > 0

\* C5 (the claim as stated): within one update the detector runs once on each
\* satellite.  The code runs it in mapCollective and again in processSatellite.
C5_OneEvaluationPerUpdate == lastProc.evaluations <= 1

\* C6 (the claim as stated): when mapCollective detected a grid crossing or a
\* zone change for a satellite and an event of that satellite is admitted in
\* the same update, the reason handed to onSoundPlayed is the detected rule.
C6_ReasonIsDetectedRule ==
    (lastProc.outcome = "admitted"
       /\ lastProc.detected \in {GRID_LON, GRID_LAT, ZONE_CHANGE})
      => lastProc.reason = lastProc.detected

-----------------------------------------------------------------------------
(* The detector, checked on detector runs (SpecDetector) *)

ValidCall == lastCall.position # <<>>

CallPos == lastCall.position[1]

CallBefore == lastCall.before[1]

\* The transitions between the state the call read and its sample.
LonCrossed == GridOf(CallBefore.longitude) # GridOf(CallPos.longitude)

LatCrossed == GridOf(CallBefore.latitude) # GridOf(CallPos.latitude)

ScreenEntered == ~CallBefore.wasOnScreen /\ IsOnScreen(CallPos)

ZoneChanged == getZone(CallBefore.altitude) # getZone(CallPos.altitude)

\* C4 (the claim as stated, for the transition rules): a call with the sample
\* of the call before it reports no grid crossing, screen entry or zone
\* change.
C4_RepeatReportsNoTransition ==
    (ValidCall /\ lastCall.previous = lastCall.position)
      => lastCall.rule \notin TransitionRules

\* C7 (the claim as stated): fed [off, off, on, on] the detector reports a
\* screen entry on the third sample and on no other, and it never reports one
\* on a sample whose predecessor was on screen.
C7_ScreenEntryOnRisingEdgeOnly ==
    /\ (Len(trace) = 4 /\ <<trace[1][1], trace[2][1], trace[3][1], trace[4][1]>>
                            = <<"off", "off", "on", "on">>)
         => /\ trace[3][2] = SCREEN_ENTRY
            /\ \A i \in {1, 2, 4} : trace[i][2] # SCREEN_ENTRY
    /\ \A i \in 2 .. Len(trace) :
         (trace[i - 1][1] = "on" /\ trace[i][1] = "on") => trace[i][2] # SCREEN_ENTRY

\* C8 (the claim as stated): after a call with a valid sample the stored
\* wasOnScreen flag is the on-screen predicate of that sample, whichever rule
\* fired.
C8_FlagFollowsSample ==
    ValidCall => previousStates[DetSat].wasOnScreen = IsOnScreen(CallPos)

\* C9: after a call with a valid sample the stored longitude, latitude and
\* altitude are those of the sample, whether or not a rule fired.
C9_StoredCoordinatesAreSample ==
    ValidCall =>
        /\ previousStates[DetSat].longitude = CallPos.longitude
        /\ previousStates[DetSat].latitude = CallPos.latitude
        /\ previousStates[DetSat].altitude = CallPos.altitude

\* C9 witness: a grid crossing fired on a sample that differs from the stored
\* one in longitude and latitude, and a later call fired nothing.
C9_Witness ==
    /\ Len(trace) >= 2
    /\ trace[Len(trace) - 1][2] = GRID_LON
    /\ ValidCall /\ lastCall.rule = NoRule
    /\ previousStates[DetSat].longitude = CallPos.longitude

\* C10: a call reports the first rule that matches in the order grid
\* longitude, grid latitude, screen entry, zone change, beacon, and no other.
C10_FirstMatchingRule ==
    ValidCall =>
        lastCall.rule =
            IF LonCrossed THEN GRID_LON
            ELSE IF LatCrossed THEN GRID_LAT
            ELSE IF ScreenEntered THEN SCREEN_ENTRY
            ELSE IF ZoneChanged THEN ZONE_CHANGE
            ELSE IF lastCall.rule = BEACON THEN BEACON
            ELSE NoRule

\* C10 witness: longitude and latitude grid lines were crossed in one sample
\* and the longitude rule was reported.
C10_Witness ==
    ValidCall /\ LonCrossed /\ LatCrossed /\ lastCall.rule = GRID_LON

\* The sample of the call before the last one, when it had one.
HasPrevPos == lastCall.previous # <<>>

PrevPos == lastCall.previous[1]

\* C11: a sample in another 10-degree longitude bin than its predecessor
\* reports a longitude grid crossing, whichever way the bin changed; a sample
\* in the same longitude bin but another latitude bin reports a latitude grid
\* crossing; a sample in the bins of its predecessor reports no grid crossing.
C11_GridCrossingEachWay ==
    (ValidCall /\ HasPrevPos) =>
        /\ lastCall.rule = GRID_LON
             <=> GridOf(PrevPos.longitude) # GridOf(CallPos.longitude)
        /\ lastCall.rule = GRID_LAT
             <=> /\ GridOf(PrevPos.longitude) = GridOf(CallPos.longitude)
                 /\ GridOf(PrevPos.latitude) # GridOf(CallPos.latitude)

\* C11 witness: three on-screen samples in a row at longitudes -5, 5, -5 (only
\* -5 and 5 are on screen): bin -1 to bin 0 and back, a crossing reported on
\* each of the two.
C11_Witness ==
    /\ Len(trace) >= 3
    /\ trace[Len(trace) - 2][1] = "on"
    /\ trace[Len(trace) - 1] = <<"on", GRID_LON>>
    /\ trace[Len(trace)] = <<"on", GRID_LON>>
    /\ HasPrevPos /\ PrevPos.longitude = 5
    /\ ValidCall /\ CallPos.longitude = -5

\* C12: a call for a satellite without a position reports no rule and leaves
\* previousStates as it was.
C12_MissingSampleNoEffect ==
    [][(Len(trace') = Len(trace) + 1 /\ trace'[Len(trace')][1] = "missing")
          => /\ previousStates' = previousStates
             /\ ~lastCall'.shouldTrigger
             /\ lastCall'.rule = NoRule]_vars

\* C12 witness: a call without a position was made after a call that had
\* stored a record.
C12_Witness ==
    /\ Len(trace) >= 2
    /\ trace[Len(trace)][1] = "missing"
    /\ DetSat \in DOMAIN previousStates

\* C14: after a call that reports a rule the stored lastBeacon is the time of
\* the call, and a beacon is reported only when more than 1000 ms have passed
\* since the last call that reported a rule.
C14_AnyRuleResetsBeaconTimer ==
    ValidCall =>
        /\ lastCall.rule # NoRule => previousStates[DetSat].lastBeacon = now
        /\ lastCall.rule = BEACON => now - lastCall.lastEvent > BeaconInterval

\* C14 witness: a beacon reported after an earlier call had reported a rule.
C14_Witness ==
    ValidCall /\ lastCall.rule = BEACON /\ lastCall.lastEvent >= Epoch

-----------------------------------------------------------------------------
(* ParameterMapper.getZone and the zone rule, checked on function runs *)
(* (SpecCalls)                                                         *)

Returned(op) == arg.op = op /\ ret # NoCall

\* The band of an altitude a >= 0.
Band(a) ==
    IF a < 2000 THEN "LEO"
    ELSE IF a < 20000 THEN "MEO"
    ELSE IF a < 50000 THEN "GEO"
    ELSE "DEEP"

\* C13: getZone gives LEO below 2000, MEO from 2000 to below 20000, GEO from
\* 20000 to below 50000 and DEEP from 50000 on; a call in which neither a grid
\* crossing nor a screen entry fired reports a zone change exactly when the
\* band of the sample differs from the band of the stored altitude, with the
\* two bands as its detail, and a call in which one of them fired reports no
\* zone change.
C13_ZoneBandsAndZoneChange ==
    /\ Returned("getZone") => ret.value = Band(arg.altitude)
    /\ Returned("checkTriggerRules") =>
         LET higher ==
                 \/ GridOf(arg.prev.longitude) # GridOf(arg.pos.longitude)
                 \/ GridOf(arg.prev.latitude) # GridOf(arg.pos.latitude)
                 \/ ~arg.prev.wasOnScreen /\ IsOnScreen(arg.pos)
             differ == Band(arg.prev.altitude) # Band(arg.pos.altitude)
         IN  /\ ret.rule = ZONE_CHANGE <=> (~higher /\ differ)
             /\ ret.rule = ZONE_CHANGE =>
                  ret.detail = <<Band(arg.prev.altitude), Band(arg.pos.altitude)>>

\* C13 witness: from 19999 km to 20000 km with no other transition, reported
\* as a zone change from MEO to GEO.
C13_Witness ==
    /\ Returned("checkTriggerRules")
    /\ arg.prev.altitude = 19999 /\ arg.pos.altitude = 20000
    /\ ret.rule = ZONE_CHANGE
    /\ ret.detail = <<"MEO", "GEO">>

-----------------------------------------------------------------------------
(* ScaleTheory, checked on function runs (SpecCalls) *)

\* A pitch name: one of the twelve note names and an octave.
IsPitchName(note) == IndexOfName(note.name) >= 0

\* C15 (the claim as stated): for every phase, negative ones and those from
\* 360 on included, phaseToNote(p, category) is a valid pitch name and equals
\* phaseToNote(p + 360, category).
C15_PhasePeriodic ==
    Returned("phaseToNote") =>
        /\ IsPitchName(ret.value)
        /\ ret.value = phaseToNote(currentScale, currentKey, arg.phase + 360,
                                   arg.category)

\* The octave the claim gives each category.
ExpectedOctave(category) ==
    IF category = "STATION" THEN 3
    ELSE IF category = "COMMUNICATION" THEN 5
    ELSE IF category = "SCIENCE" THEN 6
    ELSE IF category = "DEBRIS" THEN 7
    ELSE 4

\* C16: for a phase in [0, 360), a scale of length L and a key k, phaseToNote
\* returns the pitch class (k + scale[floor(phase / 360 * L) mod L]) mod 12 at
\* the octave of the category; with scale lydian, key D and phase 0 that is D.
C16_PhaseToNoteFormula ==
    (Returned("phaseToNote") /\ arg.phase >= 0 /\ arg.phase < 360) =>
        LET scale == scales[currentScale]
            L == Len(scale)
            index == ((arg.phase * L) \div 360) % L
        IN  /\ IndexOfName(ret.value.name) = (currentKey + scale[index + 1]) % 12
            /\ ret.value.octave = ExpectedOctave(arg.category)
            /\ (currentScale = "lydian" /\ currentKey = 2 /\ arg.phase = 0)
                  => ret.value.name = "D"

\* C16 witness: lydian in D at phase 0 for a station gives D3.
C16_Witness ==
    /\ Returned("phaseToNote")
    /\ currentScale = "lydian" /\ currentKey = 2
    /\ arg.phase = 0 /\ arg.category = "STATION"
    /\ ret.value = [name |-> "D", octave |-> 3]

\* The reorderings of a list.
Reorderings(seq) ==
    {[i \in DOMAIN seq |-> seq[f[i]]] :
        f \in {g \in [DOMAIN seq -> DOMAIN seq] : \A i, j \in DOMAIN seq :
                                                     g[i] = g[j] => i = j}}

\* C17 (the claim as stated): calculateDissonance returns 0 for no note and
\* for one note, and returns the same number for every reordering of its list.
C17_DissonanceSymmetric ==
    Returned("calculateDissonance") =>
        /\ Len(arg.notes) < 2 => ret.value = Zero
        /\ \A other \in Reorderings(arg.notes) :
              calculateDissonance(other) = ret.value

\* The MIDI numbers of the notes of a list, and the lowest of them.
MidiSet(notes) == {noteToMidi(notes[i]) : i \in DOMAIN notes}

Lowest(notes) == CHOOSE m \in MidiSet(notes) : \A n \in MidiSet(notes) : m <= n

\* The intervals above the lowest note, modulo 12, of the notes other than one
\* lowest note.
Signature(notes) ==
    LET low == CHOOSE i \in DOMAIN notes : noteToMidi(notes[i]) = Lowest(notes)
        rest == SelectSeq([i \in DOMAIN notes |-> i], LAMBDA i : i # low)
    IN  SortNumbers([k \in DOMAIN rest |->
                        (noteToMidi(notes[rest[k]]) - Lowest(notes)) % 12])

\* C18: identifyChord gives Unknown for fewer than 3 notes; for 3 or more it
\* gives the class of the lowest note and the quality of the table for the
\* sorted intervals above the lowest note ({4,7} Major, {3,7} Minor, {3,6}
\* Diminished, ...), Cluster when the table has none; every reordering of the
\* list gives the same.
C18_IdentifyChord ==
    Returned("identifyChord") =>
        /\ Len(arg.notes) < 3 => ret.value = <<"Unknown">>
        /\ Len(arg.notes) >= 3 =>
             /\ ret.value[1] = noteNames[(Lowest(arg.notes) % 12) + 1]
             /\ ret.value[2] = chordPatterns(Signature(arg.notes))
             /\ Signature(arg.notes) = <<4, 7>> => ret.value[2] = "Major"
             /\ Signature(arg.notes) = <<3, 6>> => ret.value[2] = "Diminished"
             /\ Signature(arg.notes) \in {<<0, 7>>, <<3, 4>>, <<4, 6>>}
                   => ret.value[2] = "Cluster"
        /\ \A other \in Reorderings(arg.notes) : identifyChord(other) = ret.value

\* C18 witness: A4, D4, F#4 in this order is D Major.
C18_Witness ==
    /\ Returned("identifyChord")
    /\ arg.notes = <<[name |-> "A", octave |-> 4], [name |-> "D", octave |-> 4],
                     [name |-> "F#", octave |-> 4]>>
    /\ ret.value = <<"D", "Major">>

\* The names of a list of note names.
NamesOf(allowedNotes) == {allowedNotes[i] : i \in DOMAIN allowedNotes}

\* C19 (the claim as stated): for every note and every allowed list,
\* constrainToChord returns a note whose pitch class is in the list.
C19_ResultInAllowedSet ==
    Returned("constrainToChord") => ret.value.name \in NamesOf(arg.allowed)

\* C19 (amended): for a well-formed note and a non-empty allowed list,
\* constrainToChord returns a well-formed note whose pitch class is in the
\* list; for an empty list, or a note that is no pitch name, it returns the
\* note unchanged.
C19_ResultInAllowedSetWhenAny ==
    Returned("constrainToChord") =>
        IF arg.allowed = <<>> \/ ~IsPitchName(arg.note)
        THEN ret.value = arg.note
        ELSE IsPitchName(ret.value) /\ ret.value.name \in NamesOf(arg.allowed)

\* C19 witness: G#4 against the chord D F# A C# becomes A4.
C19_Witness ==
    /\ Returned("constrainToChord")
    /\ arg.note = [name |-> "G#", octave |-> 4]
    /\ arg.allowed = progression[1]
    /\ ret.value = [name |-> "A", octave |-> 4]

\* The scale and key names a setter call was given (none where it takes none).
ScaleNameGiven ==
    IF arg.op = "setScale" THEN {arg.scaleName}
    ELSE IF arg.op = "setMode" THEN {arg.modeName} ELSE {}

KeyNameGiven ==
    IF arg.op \in {"setScale", "setKey"} THEN {arg.keyNote} \ {Undefined} ELSE {}

\* The names the specification calls known: the scale table and the 12
\* pitch-class names.
UnknownScaleGiven == ScaleNameGiven \ ScaleNames # {}

UnknownKeyGiven == \E k \in KeyNameGiven : IndexOfName(k) = -1

SetterReturned == Returned("setScale") \/ Returned("setKey") \/ Returned("setMode")

\* C21: a setter called with an unknown scale or mode name leaves the active
\* scale unchanged, one called with an unknown key name leaves the active
\* key unchanged, and no call with an unknown name alters scale or key.
C21_UnknownNamesIgnored ==
    SetterReturned =>
        /\ UnknownScaleGiven => currentScale = ret.scale
        /\ UnknownKeyGiven => currentKey = ret.key
        /\ (UnknownScaleGiven \/ UnknownKeyGiven) =>
               (currentScale = ret.scale /\ currentKey = ret.key)

-----------------------------------------------------------------------------
(* The Scale / Key control, checked on app runs (SpecApp) *)

\* C22: once the user has set key and mode through the Scale / Key control,
\* every later update leaves the selected scale and key in force.
C22_UserScaleStaysInForce ==
    arg.op = "AudioEngine.setScale" =>
        /\ currentScale = arg.mode
        /\ currentKey = IndexOfName(arg.key)

\* The key the user selected stays in force through every later update (the
\* part of C22 that holds).
C22_UserKeyStaysInForce ==
    arg.op = "AudioEngine.setScale" => currentKey = IndexOfName(arg.key)

-----------------------------------------------------------------------------
(* AIConductor, checked on function runs (SpecCalls) *)

\* C23: each analyze call classifies the mood from the collective it is given
\* by the ordered rules: climax if density > 30 and intensity > 0.7, else
\* building if density is rising, else calm if it is falling, else peaceful if
\* dissonance < 0.3 and intensity < 0.4, otherwise the mood it had.
C23_AnalyzeReclassifiesMood ==
    Returned("analyze") =>
        ret.mood = determineMood(arg.density, arg.dissonance, arg.intensity,
                                 EmptyHistory.density, AnalyzeMood)

\* Ten times the mean of the ten most recent samples, and of the ten before
\* them, of a history of twenty samples or more.
RecentTotal(density) == Sum(SubSeq(density, Len(density) - 9, Len(density)))

PrecedingTotal(density) == Sum(SubSeq(density, Len(density) - 19, Len(density) - 10))

\* The mean of the ten most recent samples exceeds 1.2 times the mean of the
\* ten before them.
Rising(density) == 10 * RecentTotal(density) > 12 * PrecedingTotal(density)

\* What C24 says of a trend call that has returned.
TrendAsStated ==
    IF Len(arg.density) < 10 THEN ret.value = FALSE
    ELSE (arg.op = "isBuilding" /\ Len(arg.density) >= 20) =>
             (ret.value <=> Rising(arg.density))

\* C24: isBuilding() is true exactly when the mean of the 10 most recent
\* density samples exceeds 1.2 times the mean of the 10 samples before them;
\* with fewer than 10 samples isBuilding() and isCalming() are false.
C24_IsBuildingExactly ==
    (Returned("isBuilding") \/ Returned("isCalming")) => TrendAsStated

\* C24 apart from ties: the same, for histories whose recent mean is not
\* exactly 1.2 times the mean before.
C24_IsBuildingApartFromTies ==
    (Returned("isBuilding") \/ Returned("isCalming")) =>
        \/ /\ Len(arg.density) >= 20
           /\ 10 * RecentTotal(arg.density) = 12 * PrecedingTotal(arg.density)
        \/ TrendAsStated

\* The scenarios of C24: the ramp is building, flat density is not.
C24_Scenarios ==
    Returned("isBuilding") =>
        /\ arg.density = Ramp => ret.value
        /\ arg.density = Mix(10, 10, 0) \o Mix(10, 10, 0) => ~ret.value

\* The last maxHistory elements of seq.
MostRecent(seq) ==
    IF Len(seq) > maxHistory THEN SubSeq(seq, Len(seq) - maxHistory + 1, Len(seq))
    ELSE seq

\* C25: after updateHistory each of the three history buffers holds at most
\* 100 samples, the most recent ones, and the three have equal length.
C25_HistoryBounded ==
    Returned("updateHistory") =>
        /\ Len(ret.history.density) <= maxHistory
        /\ ret.history.density = MostRecent(Append(arg.history.density, arg.density))
        /\ ret.history.dissonance =
               MostRecent(Append(arg.history.dissonance, arg.dissonance))
        /\ ret.history.notes = MostRecent(Append(arg.history.notes, arg.notes))
        /\ Len(ret.history.dissonance) = Len(ret.history.density)
        /\ Len(ret.history.notes) = Len(ret.history.density)

\* The part of C25 that holds: the three buffers have equal length and end
\* with the sample just given.
C25_BuffersInStep ==
    Returned("updateHistory") =>
        /\ Len(ret.history.dissonance) = Len(ret.history.density)
        /\ Len(ret.history.notes) = Len(ret.history.density)
        /\ ret.history.density[Len(ret.history.density)] = arg.density

-----------------------------------------------------------------------------
(* The chord constraint on played notes, checked on conductor runs *)
(* (SpecConduct)                                                   *)

\* AIConductor.currentChordNotes
currentChordNotes == progression[chordIndex + 1]

\* C20: whenever the conductor's allowed notes are not empty, the note of an
\* admitted event, as handed to Instruments.play and to onSoundPlayed, is a
\* pitch name whose pitch class is in the chord the walker is at when the
\* event is admitted.
C20_PlayedNoteInCurrentChord ==
    (lastProc.outcome = "admitted" /\ conductorResult.allowedNotes # <<>>) =>
        /\ Len(lastProc.played) = 1
        /\ IsPitchName(lastProc.played[1])
        /\ lastProc.played[1].name \in NamesOf(currentChordNotes)

\* C20 witness: after the walker has moved to its second chord (E G# B D), a
\* satellite whose free note is C# is admitted and plays D.
C20_Witness ==
    /\ lastProc.outcome = "admitted"
    /\ chordIndex = 1
    /\ mapToAudioNote(currentScale, currentKey, frame[lastProc.sat]).name = "C#"
    /\ lastProc.played[1].name = "D"

-----------------------------------------------------------------------------
(* The chord walker, checked on conductor runs (SpecConduct) *)

\* The whole periods of 8000 ms since conducting started.
PeriodsElapsed == (now - Epoch) \div ChordPeriod

\* C26: the chord index has advanced by one modulo 4 for every 8000 ms since
\* conducting started (at the instant the timer is due, the advance may still
\* be about to happen), whatever the engine did in between, and the allowed
\* notes analyze gave the running update are the chord at the current index.
C26_ChordFollowsTheClock ==
    /\ \/ chordIndex = PeriodsElapsed % Len(progression)
       \/ now = chordTimer /\ chordIndex = (PeriodsElapsed - 1) % Len(progression)
    /\ pc # "idle" => conductorResult.allowedNotes = progression[chordIndex + 1]

\* C26 witness: 32 seconds on, the walker is back at the first chord and an
\* update is running with that chord.
C26_Witness ==
    /\ now = Epoch + Len(progression) * ChordPeriod
    /\ chordIndex = 0
    /\ pc = "process"
    /\ conductorResult.allowedNotes = progression[1]

-----------------------------------------------------------------------------
(* The ambient gate, checked on conductor runs (SpecConduct) *)

\* The last processSatellite call admitted its satellite through the ambient
\* path: no rule had fired for it in that call.
AmbientAdmission == lastProc.outcome = "admitted" /\ lastProc.rule = NoRule

\* C27: an event is admitted through the ambient path only if the time since
\* the entity's last admitted event is greater than the minimum interval of
\* its altitude, which is more than 15 seconds; lastTriggerTime holds the time
\* of that admission afterwards.
C27_AmbientWaitsItsInterval ==
    AmbientAdmission =>
        /\ lastProc.timeSinceLast > MinInterval(frame[lastProc.sat].altitude)
        /\ lastProc.timeSinceLast > AmbientFloor
        /\ lastTriggerTime[lastProc.sat] = now

\* C27 witness: a satellite admitted 16 seconds ago is admitted again through
\* the ambient path.
C27_Witness == AmbientAdmission /\ lastProc.timeSinceLast = 2 * ChordPeriod

\* The ambient gate at its boundary: 16 seconds after its last admission a
\* satellite at 1000 km, whose interval is 16 seconds, is still made to wait.
C27_BoundaryWaits ==
    /\ lastProc.outcome = "ambient-wait"
    /\ lastProc.timeSinceLast = 2 * ChordPeriod
    /\ frame[lastProc.sat].altitude = 1000

-----------------------------------------------------------------------------
(* What an admitted event causes, checked on conductor runs (SpecConduct) *)

\* The name of the rule the last processSatellite call admitted its satellite
\* under: the rule the detector matched, FLOW on the ambient path.
AdmittedUnder == IF lastProc.rule = NoRule THEN "FLOW" ELSE lastProc.rule

\* C28: an admitted event causes exactly one Instruments.play call and exactly
\* one onSoundPlayed call, which carries the played note, the name of the
\* satellite and the name of the rule; a call of processSatellite that admits
\* nothing causes neither.
C28_OnePlayOneNotification ==
    /\ lastProc.outcome = "admitted" =>
        /\ Len(lastProc.played) = 1
        /\ lastProc.notified = <<[note |-> lastProc.played[1],
                                  satellite |-> SatelliteName(lastProc.sat),
                                  reason |-> AdmittedUnder]>>
    /\ lastProc.outcome # "admitted" =>
        /\ lastProc.played = <<>>
        /\ lastProc.notified = <<>>

\* C28 witness: a note the free mapping gave as C# is played as D, and the
\* observer is told D, the satellite and the rule.
C28_Witness ==
    /\ lastProc.outcome = "admitted"
    /\ Len(lastProc.notified) = 1
    /\ lastProc.notified[1].note.name = "D"
    /\ mapToAudioNote(currentScale, currentKey, frame[lastProc.sat]).name = "C#"

\* A rejected candidate: the rule matched and the draw dropped it, nothing was
\* played and nobody was told.
C28_RejectedSilent ==
    /\ lastProc.outcome = "rule-drop"
    /\ lastProc.played = <<>>
    /\ lastProc.notified = <<>>

-----------------------------------------------------------------------------
(* Pause and resume, checked on pause runs (SpecPause) *)

\* The state of the trigger detector and the scheduler is what it was when
\* pause was asked for.
EngineStateKept ==
    /\ previousStates = atPause.previousStates
    /\ lastTriggerTime = atPause.lastTriggerTime
    /\ globalLastTrigger = atPause.globalLastTrigger
    /\ eventCounter = atPause.eventCounter
    /\ currentScale = atPause.currentScale
    /\ currentKey = atPause.currentKey

\* C29: while the simulation is paused neither the simulated clock nor the
\* state of the trigger detector and the scheduler moves: up to the resume
\* both are what they were when pause was asked for.
C29_PauseKeepsClockAndState ==
    paused => simulatedTime = atPause.simulatedTime /\ EngineStateKept

\* The engine's part of C29: the state of the trigger detector and the
\* scheduler is kept through every pause.
C29_PauseKeepsEngineState == paused => EngineStateKept

\* The clock's part of C29 for a pause asked for once start() has set the
\* loop going: the simulated clock is kept.
C29_PauseAfterStartKeepsClock ==
    (paused /\ atPause.startup = "started") =>
        simulatedTime = atPause.simulatedTime

\* A pause asked for while start() awaits audioEngine.initialize(): start()
\* sets isRunning afterwards, and the loop moves the simulated clock on.
C29_ClockMovesWhilePaused ==
    /\ paused
    /\ atPause.startup = "starting"
    /\ simulatedTime > atPause.simulatedTime

\* A pause in a running application: both callbacks of a doubled loop have
\* run out and the clock stands.
C29_PausedAndStill ==
    /\ paused
    /\ atPause.startup = "started"
    /\ callbacks = 0
    /\ atPause.eventCounter > 0

-----------------------------------------------------------------------------
(* The positions of a tick, checked on function runs (SpecCalls) *)

\* The position computation of a satellite succeeds.
Succeeds(sat) == sat.satrec /\ sat.propagation = "position"

\* C30: getActiveSatellitesWithPositions returns, in the order of the active
\* list, exactly the active satellites whose position computation succeeded,
\* each with its position; a satellite whose propagation fails or throws is
\* left out, no exception leaves the call, and the satellites after it are
\* still processed.
C30_ExactlyTheSucceeding ==
    ret.op = "getActiveSatellitesWithPositions" =>
        LET ok == SelectSeq(arg.satellites, Succeeds)
        IN  /\ ~ret.escaped
            /\ Len(ret.satellites) = Len(ok)
            /\ \A i \in 1 .. Len(ok) :
                  /\ ret.satellites[i].noradId = ok[i].noradId
                  /\ ret.satellites[i].position = PositionOf(ok[i]).position

\* C30 witness: the first satellite's propagation fails, the second's throws,
\* and the third is returned alone.
C30_Witness ==
    /\ ret.op = "getActiveSatellitesWithPositions"
    /\ Len(arg.satellites) = 3
    /\ arg.satellites[1].propagation = "false"
    /\ arg.satellites[2].propagation = "throws"
    /\ Len(ret.satellites) = 1
    /\ ret.satellites[1].noradId = 3

-----------------------------------------------------------------------------
(* The admitted-event counter, checked on slow runs (SpecSlow) *)

\* The step is a processSatellite call that admits its satellite.
AdmissionStep == pc = "process" /\ lastProc'.outcome = "admitted"

\* The step is an updateStats call at least 1000 ms after the last reset.
ResetStep == pc = "stats" /\ now' - lastStatsUpdate >= StatsWindow

\* What a step does to the counter: an admission adds one, an updateStats
\* call at least a second after the last reset publishes it and sets it to
\* zero, a call met by a counter above 15 is rejected before the detector has
\* run, and nothing else touches the counter or the published figure.
CounterStep ==
    /\ AdmissionStep => eventCounter' = eventCounter + 1
    /\ ResetStep => eventsPerSecond' = eventCounter /\ eventCounter' = 0
    /\ ~AdmissionStep /\ ~ResetStep => eventCounter' = eventCounter
    /\ ~ResetStep => eventsPerSecond' = eventsPerSecond
    /\ (pc = "process" /\ eventCounter > MaxVoices) =>
          /\ lastProc'.outcome = "ceiling"
          /\ previousStates' = previousStates

\* C31: the counter goes up by exactly one per admission and is set to zero
\* only by an updateStats call at least 1000 ms after the last reset, which
\* publishes the admissions counted since then as eventsPerSecond; a counter
\* above 15 rejects every candidate before any other check, so the counter
\* never exceeds 16.
C31_CounterCountsAdmissions ==
    [](eventCounter <= MaxVoices + 1) /\ [][CounterStep]_vars

\* C31 witness: sixteen admissions have been counted, a further candidate has
\* met the ceiling, and the sixteen are then published at the reset.
C31_Witness ==
    /\ eventsPerSecond = MaxVoices + 1
    /\ eventCounter = 0
    /\ lastStatsUpdate = now

\* The ceiling at work: a candidate is rejected by a counter of 16.
C31_CeilingReached == lastProc.outcome = "ceiling" /\ eventCounter = MaxVoices + 1

-----------------------------------------------------------------------------
(* The two admission paths, checked on engine runs (Spec) *)

\* The detector reported a rule in the last processSatellite call.
RuleFired == lastProc.rule \notin {NoRule, "skipped"}

\* The interval of the ambient gate had passed in the last call.
IntervalPassed ==
    lastProc.timeSinceLast > MinInterval(frame[lastProc.sat].altitude)

\* C32: a candidate for which a rule fired is admitted exactly when its one
\* draw succeeds, whatever the time since the satellite's last event, and is
\* not admitted through the ambient gate when the draw fails; an event
\* admitted without a rule carries the reason FLOW, one admitted on a rule
\* carries the rule.
C32_RulePathOrAmbientPath ==
    /\ RuleFired =>
          /\ lastProc.outcome = IF lastProc.draw THEN "admitted" ELSE "rule-drop"
          /\ lastProc.outcome = "admitted" => lastProc.reason = lastProc.rule
    /\ (lastProc.outcome = "admitted" /\ ~RuleFired) =>
          /\ lastProc.reason = "FLOW"
          /\ IntervalPassed

\* C32 witness: a rule fired and its draw failed while the ambient interval
\* had passed, and nothing was admitted.
C32_Witness ==
    /\ RuleFired
    /\ ~lastProc.draw
    /\ IntervalPassed
    /\ lastProc.outcome = "rule-drop"

\* A rule's draw succeeds although the satellite played within its ambient
\* interval: the rule path has no cooldown.
C32_RulePathNoCooldown ==
    /\ RuleFired
    /\ lastProc.outcome = "admitted"
    /\ ~IntervalPassed

\* An event admitted through the ambient gate.
C32_AmbientLabelled ==
    /\ lastProc.outcome = "admitted"
    /\ ~RuleFired
    /\ lastProc.reason = "FLOW"

-----------------------------------------------------------------------------
(* The ambient interval, checked on function runs (SpecCalls) *)

\* The interval lies between 15 and 45 seconds and is 45 seconds from
\* 30000 km on.
IntervalInRange(altitude, interval) ==
    /\ interval >= AmbientFloor
    /\ interval <= AmbientFloor + AmbientSpan
    /\ altitude >= AmbientSpan => interval = AmbientFloor + AmbientSpan

\* C33: for every altitude from 0 on the ambient minimum interval lies in
\* [15000, 45000] ms, is 45000 ms at 30000 km and above, and the lower of two
\* altitudes never has the longer interval.
C33_IntervalGrowsWithAltitude ==
    ret.op = "minInterval" =>
        /\ IntervalInRange(arg.low, ret.low)
        /\ IntervalInRange(arg.high, ret.high)
        /\ arg.low <= arg.high => ret.low <= ret.high

\* C33 without the altitude 0, which the program replaces by 500 km.
C33_IntervalGrowsAboveZero ==
    (ret.op = "minInterval" /\ arg.low > 0) =>
        /\ IntervalInRange(arg.low, ret.low)
        /\ IntervalInRange(arg.high, ret.high)
        /\ arg.low <= arg.high => ret.low <= ret.high

\* Altitude 0 is given a longer interval than 250 km.
C33_ZeroWaitsLonger ==
    /\ ret.op = "minInterval"
    /\ arg.low = 0
    /\ arg.high = 250
    /\ ret.low > ret.high

-----------------------------------------------------------------------------
(* The nearest chord tone, checked on function runs (SpecCalls) *)

\* The MIDI number of a pitch name at an octave, octave -1 and 10 included.
MidiOf(note) == (note.octave + 1) * 12 + IndexOfName(note.name)

\* Every allowed pitch class at the octave of the note, one below and one
\* above.
Candidates(note, allowedNotes) ==
    {[name |-> allowedNotes[i], octave |-> note.octave + d] :
        i \in DOMAIN allowedNotes, d \in {-1, 0, 1}}

\* How far the result of the call lies from its input, in semitones.
Moved == Abs(MidiOf(ret.value) - MidiOf(arg.note))

\* The result is a candidate nearest to the input, at most 6 semitones away,
\* and the input itself when its pitch class is allowed.
NearestCandidate ==
    /\ ret.value \in Candidates(arg.note, arg.allowed)
    /\ \A c \in Candidates(arg.note, arg.allowed) :
          Moved <= Abs(MidiOf(c) - MidiOf(arg.note))
    /\ Moved <= 6
    /\ arg.note.name \in NamesOf(arg.allowed) => ret.value = arg.note

\* C34: for a parseable input pitch and a non-empty allowed set,
\* constrainToChord returns a candidate of minimum MIDI distance to the input
\* among the allowed pitch classes at the input's octave, the octave below
\* and the octave above; the result is at most 6 semitones from the input and
\* is the input when the input's pitch class is allowed.
C34_NearestChordTone ==
    (Returned("constrainToChord") /\ IsPitchName(arg.note) /\ arg.allowed # <<>>)
        => NearestCandidate

\* C34 for the octaves 1 to 8, whose neighbours are written with one digit.
C34_NearestChordToneInnerOctaves ==
    (/\ Returned("constrainToChord") /\ IsPitchName(arg.note)
     /\ arg.allowed # <<>> /\ arg.note.octave \in 1 .. 8)
        => NearestCandidate

\* C0 against the one-note list B comes back as B0, 11 semitones up, not as
\* the B one semitone below.
C34_FarAtTheLowestOctave ==
    /\ Returned("constrainToChord")
    /\ arg.note = [name |-> "C", octave |-> 0]
    /\ arg.allowed = <<"B">>
    /\ ret.value = [name |-> "B", octave |-> 0]

\* B9 against the one-note list C comes back as C9, 11 semitones down.
C34_FarAtTheHighestOctave ==
    /\ Returned("constrainToChord")
    /\ arg.note = [name |-> "B", octave |-> 9]
    /\ arg.allowed = <<"C">>
    /\ ret.value = [name |-> "C", octave |-> 9]

-----------------------------------------------------------------------------
(* The sound log, checked on function runs (SpecCalls) *)

\* The entries handed to addSoundLogEntry so far, in order of arrival.
Arrived == [k \in 1 .. (arg.calls + IF arg.hasLog THEN 1 ELSE 0) |-> k]

\* The last n elements of a sequence, all of it when it is shorter.
LastOf(s, n) == IF Len(s) <= n THEN s ELSE SubSeq(s, Len(s) - n + 1, Len(s))

\* C35: after any sequence of addSoundLogEntry calls the sound log holds at
\* most 10 entries, the most recent ones in order of arrival.
C35_LogHoldsLastTen ==
    ret.op = "addSoundLogEntry" =>
        /\ Len(ret.entries) <= 10
        /\ ret.entries = LastOf(Arrived, 10)

\* What the log does hold: the most recent entries in order of arrival, up to
\* eleven of them.
C35_LogHoldsLastEleven ==
    ret.op = "addSoundLogEntry" =>
        /\ Len(ret.entries) <= LogLimit + 1
        /\ ret.entries = LastOf(Arrived, LogLimit + 1)

\* The log after its eleventh call: eleven entries.
C35_ElevenEntries ==
    /\ ret.op = "addSoundLogEntry"
    /\ arg.calls = 10
    /\ arg.hasLog
    /\ Len(ret.entries) = 11

-----------------------------------------------------------------------------
(* The active scale and key after a mutator, checked on function runs        *)
(* (SpecCalls)                                                                *)

\* A mutator of ScaleTheory has returned.
MutatorReturned == SetterReturned \/ Returned("setHarmonyMode")

\* The offsets of every scale of the table are strictly increasing and lie
\* in 0 .. 11.
ScaleTableWellFormed ==
    \A n \in DOMAIN scales :
        /\ \A i \in DOMAIN scales[n] : scales[n][i] \in 0 .. 11
        /\ \A i \in 1 .. Len(scales[n]) - 1 : scales[n][i] < scales[n][i + 1]

\* C36: after a call of setScale, setKey, setMode or setHarmonyMode with any
\* argument, made under any scale of the table and any key, the active scale
\* is a key of the scale table, whose entries are strictly increasing offsets
\* in 0 .. 11, and the active key is in 0 .. 11.
C36_ScaleAndKeyStayValid ==
    MutatorReturned =>
        /\ currentScale \in DOMAIN scales
        /\ ScaleTableWellFormed
        /\ currentKey \in 0 .. 11

\* The key's part of C36, and the scale's part for the names that are not
\* 'chaotic' or inherited from Object.
C36_KeyStaysValid ==
    MutatorReturned =>
        /\ currentKey \in 0 .. 11
        /\ ScaleTableWellFormed
        /\ (arg.op = "setHarmonyMode" /\ arg.mode # "chaotic") =>
              currentScale \in DOMAIN scales

\* setHarmonyMode('chaotic') has made chromatic, which the table does not
\* hold, the active scale.
C36_ChromaticActive ==
    /\ Returned("setHarmonyMode")
    /\ arg.mode = "chaotic"
    /\ currentScale = "chromatic"
    /\ currentScale \notin DOMAIN scales

-----------------------------------------------------------------------------
(* The first observation of an entity, checked on detector runs              *)
(* (SpecDetector)                                                             *)

\* The last call was the first to bring a sample: every call before it was
\* made without a position, and such calls store nothing.
FirstObservation ==
    /\ ValidCall
    /\ \A i \in 1 .. Len(trace) - 1 : trace[i][1] = "missing"

\* C37: on the first observation of an entity the detector reports no grid
\* crossing and no zone change; it reports screen entry when the sample is
\* on screen, and otherwise the beacon or nothing.
C37_FirstObservationNoTransition ==
    FirstObservation =>
        /\ lastCall.rule \notin {GRID_LON, GRID_LAT, ZONE_CHANGE}
        /\ lastCall.rule = SCREEN_ENTRY <=> IsOnScreen(CallPos)
        /\ lastCall.rule \in {SCREEN_ENTRY, BEACON, NoRule}

\* C37 witness: the first sample of an entity, at longitude -5 in MEO after a
\* call without position, is reported as screen entry.
C37_Witness ==
    /\ FirstObservation
    /\ Len(trace) = 2
    /\ CallPos.longitude = 5
    /\ CallPos.altitude = 2500
    /\ lastCall.rule = SCREEN_ENTRY

\* A first sample off screen is reported as the beacon.
C37_FirstBeacon ==
    /\ FirstObservation
    /\ ~IsOnScreen(CallPos)
    /\ lastCall.rule = BEACON

-----------------------------------------------------------------------------
(* Animation-loop chains, checked on pause runs (SpecPause)                  *)

\* The animation-loop chains alive: the callbacks of requestAnimationFrame
\* that are pending (a call of loop in progress has made its request).
LoopChains == callbacks

\* C38: whatever the order of pause(), resume() and animation-frame
\* callbacks, at most one animation-loop chain is pending, so that one
\* animation frame runs at most one simulation tick.
C38_OneLoopChain == LoopChains <= 1

\* A click on PAUSE alone leaves the chains as they are, and the pending
\* callback ends its chain when it finds the application paused.
C38_PauseEndsTheChain ==
    [][pc = "loop" /\ ~isRunning => callbacks' = callbacks]_vars

\* Two chains are pending while the application runs: the next animation
\* frame runs loop twice.
C38_TwoChains ==
    /\ LoopChains = 2
    /\ isRunning
    /\ pc = "idle"

-----------------------------------------------------------------------------
(* Start runs: the application from OrbitalResonanceApp.initialize on, with  *)
(* one satellite, while 'orbital-start' is dispatched up to MaxStarts times.  *)
(* Every event calls start(), and start() awaits audioEngine.initialize().    *)

Requests == 1 .. MaxStarts

\* The application after OrbitalResonanceApp.initialize: no start request yet.
InitStart ==
    /\ InitEngines("cosmic", 2, NoCall)
    /\ isRunning = FALSE
    /\ isInitialized = FALSE
    /\ startup = "ready"
    /\ callbacks = 0
    /\ starts = [i \in Requests |-> "none"]
    /\ components = 0
    /\ conducting = {}

\* 'orbital-start' is dispatched: start() calls audioEngine.initialize().  An
\* initialized engine returns true at once, and start() goes on (isRunning =
\* true; this.loop()) before any other handler runs; otherwise initialize
\* stops at await Tone.start().
StartRequest(i) ==
    /\ pc = "idle"
    /\ starts[i] = "none"
    /\ \A j \in Requests : j < i => starts[j] # "none"
    /\ IF isInitialized
       THEN /\ starts' = [starts EXCEPT ![i] = "done"]
            /\ isRunning' = TRUE
            /\ pc' = "loop"
       ELSE /\ starts' = [starts EXCEPT ![i] = "Tone.start"]
            /\ UNCHANGED <<isRunning, pc>>
    /\ UNCHANGED <<detVars, frame, idx, lastTriggerTime, globalLastTrigger,
                   eventCounter, lastStatsUpdate, eventsPerSecond, currentScale,
                   currentKey, admitLog, detected, lastProc, chordIndex,
                   chordTimer, conductorResult, callVars, isPlaying,
                   isInitialized, simulatedTime, startup, callbacks, paused,
                   atPause, components, conducting>>

\* Tone.start() has resolved for request i: initialize constructs the audio
\* components (new ScaleTheory() ... new SpatialAudio()) and stops at
\* await this.instruments.initialize().
ToneStarted(i) ==
    /\ pc = "idle"
    /\ starts[i] = "Tone.start"
    /\ starts' = [starts EXCEPT ![i] = "instruments.initialize"]
    /\ components' = components + 1
    /\ UNCHANGED <<detVars, engineVars, callVars, isRunning, isPlaying,
                   isInitialized, simulatedTime, startup, callbacks, paused,
                   atPause, conducting>>

\* startConducting() of conductor c: nothing when it conducts already,
\* otherwise its interval timer is set.
startConducting(timers, c) == timers \cup {c}

\* instruments.initialize() has resolved for request i: initialize calls
\* this.aiConductor.startConducting() on the conductor constructed last and
\* sets isInitialized; start() goes on with isRunning = true; this.loop().
InstrumentsReady(i) ==
    /\ pc = "idle"
    /\ starts[i] = "instruments.initialize"
    /\ starts' = [starts EXCEPT ![i] = "done"]
    /\ conducting' = startConducting(conducting, components)
    /\ isInitialized' = TRUE
    /\ isRunning' = TRUE
    /\ startup' = "started"
    /\ pc' = "loop"
    /\ UNCHANGED <<detVars, frame, idx, lastTriggerTime, globalLastTrigger,
                   eventCounter, lastStatsUpdate, eventsPerSecond, currentScale,
                   currentKey, admitLog, detected, lastProc, chordIndex,
                   chordTimer, conductorResult, callVars, isPlaying,
                   simulatedTime, callbacks, paused, atPause, components>>

NextStart ==
    \/ \E i \in Requests : StartRequest(i)
    \/ \E i \in Requests : ToneStarted(i)
    \/ \E i \in Requests : InstrumentsReady(i)
    \/ AnimationFrame
    \/ \E t \in Later(Instants), fr \in [{1} -> EngineSamples],
          coin \in BOOLEAN : Loop(t, fr, <<<<0, coin>>>>)
    \/ \E beaconCoin \in BOOLEAN, gateCoin \in BOOLEAN :
          ProcessSatellite(now, 0, beaconCoin, gateCoin)
    \/ UpdateStats(now)

SpecStart == InitStart /\ [][NextStart]_vars

\* Every request made has run start() to its end.
AllStarted == \A i \in Requests : starts[i] = "done"

\* C39: however two or more start requests interleave, the audio components
\* are constructed once, one chord-progression timer runs, and one
\* animation-loop chain is started.
C39_StartedOnce ==
    /\ components <= 1
    /\ Cardinality(conducting) <= 1
    /\ LoopChains <= 1

\* A request made when every earlier one has run to its end constructs
\* nothing and sets no timer.
C39_LateRequestBuildsNothing ==
    [][(isInitialized /\ \A i \in Requests : starts[i] \in {"none", "done"})
          => components' = components /\ conducting' = conducting]_vars

\* Two overlapping requests have constructed the components twice and set
\* two chord timers.
C39_TwoTimers ==
    /\ AllStarted
    /\ components = 2
    /\ Cardinality(conducting) = 2

\* Two requests one after the other have constructed the components once and
\* started two animation-loop chains.
C39_TwoChainsOneEngine ==
    /\ AllStarted
    /\ components = 1
    /\ pc = "idle"
    /\ LoopChains = 2

-----------------------------------------------------------------------------
(* State keys of the loaded entities, checked on function runs (SpecCalls)   *)

\* The entities loaded share no state key.
KeysDistinct ==
    \A a \in ret.satellites, b \in ret.satellites :
        a # b => stateKey(a) # stateKey(b)

\* C40: distinct loaded entities have distinct state keys (noradId, else
\* name), those of the fallback data included, so that the trigger state and
\* the last trigger time kept under a key belong to one entity.
C40_DistinctStateKeys == ret.op = "fetchAllGroups" => KeysDistinct

\* When every fetch succeeds, or only one group falls back, the loaded
\* entities have distinct state keys.
C40_FetchedKeysDistinct ==
    (ret.op = "fetchAllGroups" /\ Cardinality(arg.failed) <= 1) => KeysDistinct

\* With no fetch succeeding, the first entity of every group has the state
\* key 10000.
C40_SharedKey ==
    /\ ret.op = "fetchAllGroups"
    /\ arg.failed = GroupNames
    /\ \A g \in GroupNames :
          \E s \in ret.satellites :
              s.group = g /\ stateKey(s) = [noradId |-> FallbackBase]

====
